---- MODULE Spec2Model ----
(***************************************************************************)
(* Topic research pipeline of the YouTube content researcher agent:       *)
(* discovery, relevance filtering, deduplication, AI evaluation, threshold *)
(* filtering and ranking (src/src/main.py), the evaluator's response       *)
(* parser (src/src/ai/topic_evaluator.py) and the topic store              *)
(* (src/src/storage/database.py).                                          *)
(*                                                                         *)
(* Text is modelled as a sequence of one-character strings, so that        *)
(* lowercasing, substring tests, splitting and formatting are computed     *)
(* the way the Python code computes them.                                  *)
(***************************************************************************)
EXTENDS Integers, Sequences, FiniteSets, TLC

VARIABLES pc, agent, db, run, obs, unit

vars == <<pc, agent, db, run, obs, unit>>

----------------------------------------------------------------------------
(* Text primitives (Python str)                                            *)

UpperLetters == <<"A","B","C","D","E","F","G","H","I","J","K","L","M","N","O","P","Q","R","S","T","U","V","W","X","Y","Z">>
LowerLetters == <<"a","b","c","d","e","f","g","h","i","j","k","l","m","n","o","p","q","r","s","t","u","v","w","x","y","z">>
Digits == {"0","1","2","3","4","5","6","7","8","9"}

UpperSet == {UpperLetters[i] : i \in 1..26}
LowerOf == [c \in UpperSet |-> LowerLetters[CHOOSE i \in 1..26 : UpperLetters[i] = c]]

\* str.lower() on one character
LowerChar(c) == IF c \in UpperSet THEN LowerOf[c] ELSE c

\* str.lower()
Lower(s) == [i \in 1..Len(s) |-> LowerChar(s[i])]

\* the Python test <<"k"," ","i","n"," ","s">> on strings
Contains(k, s) ==
    \E i \in 0..(Len(s) - Len(k)) : SubSeq(s, i + 1, i + Len(k)) = k

\* any(k in s for k in ks), ks a list of strings
AnyIn(ks, s) == \E j \in 1..Len(ks) : Contains(ks[j], s)

\* sep.join(parts)
RECURSIVE Join(_, _)
Join(sep, parts) ==
    IF Len(parts) = 0 THEN <<>>
    ELSE IF Len(parts) = 1 THEN parts[1]
    ELSE parts[1] \o sep \o Join(sep, Tail(parts))

\* str.split(): the maximal runs of non-blank characters
RECURSIVE SplitFrom(_, _, _)
SplitFrom(s, i, word) ==
    IF i > Len(s) THEN (IF word = <<>> THEN <<>> ELSE <<word>>)
    ELSE IF s[i] = " "
         THEN (IF word = <<>> THEN <<>> ELSE <<word>>) \o SplitFrom(s, i + 1, <<>>)
         ELSE SplitFrom(s, i + 1, Append(word, s[i]))

Split(s) == SplitFrom(s, 1, <<>>)

\* list[:n] for a Python int n (a negative n counts from the end)
Prefix(list, n) ==
    IF n >= 0
    THEN SubSeq(list, 1, IF n < Len(list) THEN n ELSE Len(list))
    ELSE SubSeq(list, 1, IF Len(list) + n > 0 THEN Len(list) + n ELSE 0)

\* Python's optional values: None, or a value
None == [some |-> FALSE, v |-> 0]
Some(x) == [some |-> TRUE, v |-> x]

\* list.sort(key=..., reverse=True) on a list of [key, val] records: Python's
\* an insertion that puts a record before the records with an equal key
RECURSIVE InsertDescTiesReversed(_, _)
InsertDescTiesReversed(sorted, x) ==
    IF sorted = <<>> THEN <<x>>
    ELSE IF Head(sorted).key > x.key
         THEN <<Head(sorted)>> \o InsertDescTiesReversed(Tail(sorted), x)
         ELSE <<x>> \o sorted

\* sort is stable, also with reverse=True, so a record goes after every
\* record already placed whose key is greater than or equal to its own
RECURSIVE InsertDesc(_, _)
InsertDesc(sorted, x) ==
    IF sorted = <<>> THEN <<x>>
    ELSE IF Head(sorted).key >= x.key
         THEN <<Head(sorted)>> \o InsertDesc(Tail(sorted), x)
         ELSE <<x>> \o sorted

RECURSIVE SortDescFrom(_, _, _)
SortDescFrom(items, i, sorted) ==
    IF i > Len(items) THEN sorted
    ELSE SortDescFrom(items, i + 1, InsertDesc(sorted, items[i]))

SortDesc(items) == SortDescFrom(items, 1, <<>>)

----------------------------------------------------------------------------
(* ContentResearcherAgent: the pure helpers of src/src/main.py             *)

irrelevant_keywords == <<
    <<"m","u","s","i","c"," ","v","i","d","e","o">>, <<"o","f","f","i","c","i","a","l"," ","v","i","d","e","o">>, <<"m","v">>, <<"t","r","a","i","l","e","r">>, <<"t","e","a","s","e","r">>,
    <<"g","a","m","e","p","l","a","y">>, <<"l","e","t","'","s"," ","p","l","a","y">>, <<"g","a","m","i","n","g">>, <<"f","o","r","t","n","i","t","e">>, <<"r","o","b","l","o","x">>,
    <<"t","i","k","t","o","k">>, <<"b","r","a","i","n","r","o","t">>, <<"s","t","e","a","l"," ","a">>, <<"a","d","m","i","n"," ","a","b","u","s","e">>,
    <<"o","f","f","i","c","i","a","l"," ","m","u","s","i","c">>, <<"f","t",".">>, <<"f","e","a","t",".">>, <<"p","r","o","d","."," ","b","y">>,
    <<"(","o","f","f","i","c","i","a","l">>, <<"o","f","f","i","c","i","a","l"," ","t","r","a","i","l","e","r">> >>

relevant_keywords == <<
    <<"t","u","t","o","r","i","a","l">>, <<"g","u","i","d","e">>, <<"h","o","w"," ","t","o">>, <<"l","e","a","r","n">>, <<"c","o","u","r","s","e">>, <<"l","e","s","s","o","n">>,
    <<"t","e","c","h">>, <<"a","i">>, <<"p","r","o","g","r","a","m","m","i","n","g">>, <<"c","o","d","e">>, <<"s","o","f","t","w","a","r","e">>, <<"d","a","t","a">>,
    <<"b","u","s","i","n","e","s","s">>, <<"s","t","a","r","t","u","p">>, <<"e","n","t","r","e","p","r","e","n","e","u","r">>, <<"m","a","r","k","e","t","i","n","g">>, <<"s","t","r","a","t","e","g","y">>,
    <<"e","x","p","l","a","i","n","e","d">>, <<"i","n","t","r","o","d","u","c","t","i","o","n">>, <<"b","e","g","i","n","n","e","r">>, <<"a","d","v","a","n","c","e","d">>, <<"t","i","p","s">>,
    <<"r","e","v","i","e","w">>, <<"c","o","m","p","a","r","i","s","o","n">>, <<"v","s">>, <<"b","e","s","t">>, <<"t","o","p">> >>

\* a filter that accepts on the allow-list before it looks at the deny-list
IsRelevantAllowFirst(video) ==
    LET title == Lower(video.title)
    IN  IF AnyIn(relevant_keywords, title) THEN TRUE
        ELSE ~AnyIn(irrelevant_keywords, title)

\* _is_relevant_to_channel(video): the deny-list first, then the allow-list
IsRelevantToChannel(video) ==
    LET title == Lower(video.title)
    IN  IF AnyIn(irrelevant_keywords, title) THEN FALSE
        ELSE AnyIn(relevant_keywords, title)

\* a categorizer that tries the Comparison bucket before the Tutorial one
CategorizeComparisonFirst(title) ==
    LET title_lower == Lower(title)
    IN  IF AnyIn(<<<<"v","s">>, <<"v","e","r","s","u","s">>, <<"c","o","m","p","a","r","i","s","o","n">>, <<"c","o","m","p","a","r","e">>>>, title_lower)
            THEN "Comparison"
        ELSE IF AnyIn(<<<<"t","u","t","o","r","i","a","l">>, <<"h","o","w"," ","t","o">>, <<"g","u","i","d","e">>, <<"l","e","a","r","n">>>>, title_lower)
            THEN "Tutorial"
        ELSE IF AnyIn(<<<<"r","e","v","i","e","w">>, <<"u","n","b","o","x">>, <<"t","e","s","t">>>>, title_lower)
            THEN "Review"
        ELSE IF AnyIn(<<<<"t","i","p","s">>, <<"t","r","i","c","k","s">>, <<"h","a","c","k","s">>>>, title_lower)
            THEN "Tips & Tricks"
        ELSE IF AnyIn(<<<<"n","e","w","s">>, <<"u","p","d","a","t","e">>, <<"a","n","n","o","u","n","c","e","m","e","n","t">>>>, title_lower)
            THEN "News"
        ELSE "General"

\* _categorize_topic(title): the first bucket with a keyword in the title
CategorizeTopic(title) ==
    LET title_lower == Lower(title)
    IN  IF AnyIn(<<<<"t","u","t","o","r","i","a","l">>, <<"h","o","w"," ","t","o">>, <<"g","u","i","d","e">>, <<"l","e","a","r","n">>>>, title_lower)
            THEN "Tutorial"
        ELSE IF AnyIn(<<<<"r","e","v","i","e","w">>, <<"u","n","b","o","x">>, <<"t","e","s","t">>>>, title_lower)
            THEN "Review"
        ELSE IF AnyIn(<<<<"v","s">>, <<"v","e","r","s","u","s">>, <<"c","o","m","p","a","r","i","s","o","n">>, <<"c","o","m","p","a","r","e">>>>, title_lower)
            THEN "Comparison"
        ELSE IF AnyIn(<<<<"t","i","p","s">>, <<"t","r","i","c","k","s">>, <<"h","a","c","k","s">>>>, title_lower)
            THEN "Tips & Tricks"
        ELSE IF AnyIn(<<<<"n","e","w","s">>, <<"u","p","d","a","t","e">>, <<"a","n","n","o","u","n","c","e","m","e","n","t">>>>, title_lower)
            THEN "News"
        ELSE "General"

\* the deduplicator comparing the titles as they are, without lowercasing
RECURSIVE DedupExactFrom(_, _, _, _)
DedupExactFrom(topics, i, seen_titles, unique) ==
    IF i > Len(topics) THEN unique
    ELSE IF topics[i].title \notin seen_titles
         THEN DedupExactFrom(topics, i + 1, seen_titles \cup {topics[i].title},
                             Append(unique, topics[i]))
         ELSE DedupExactFrom(topics, i + 1, seen_titles, unique)

DeduplicateTopicsCaseSensitive(topics) == DedupExactFrom(topics, 1, {}, <<>>)

\* _deduplicate_topics(topics): the loop over topics, with the set of
\* lowercased titles seen so far
RECURSIVE DedupFrom(_, _, _, _)
DedupFrom(topics, i, seen_titles, unique) ==
    IF i > Len(topics) THEN unique
    ELSE LET title_lower == Lower(topics[i].title)
         IN  IF title_lower \notin seen_titles
             THEN DedupFrom(topics, i + 1, seen_titles \cup {title_lower},
                            Append(unique, topics[i]))
             ELSE DedupFrom(topics, i + 1, seen_titles, unique)

DeduplicateTopics(topics) == DedupFrom(topics, 1, {}, <<>>)

tech_keywords ==
    <<<<"t","e","c","h">>, <<"s","o","f","t","w","a","r","e">>, <<"c","o","d","i","n","g">>, <<"p","r","o","g","r","a","m","m","i","n","g">>, <<"d","e","v","e","l","o","p","e","r">>, <<"a","i">>, <<"m","l">>, <<"d","a","t","a">>>>
business_keywords ==
    <<<<"b","u","s","i","n","e","s","s">>, <<"e","n","t","r","e","p","r","e","n","e","u","r">>, <<"s","t","a","r","t","u","p">>, <<"m","a","r","k","e","t","i","n","g">>, <<"f","i","n","a","n","c","e">>, <<"m","o","n","e","y">>>>
education_keywords ==
    <<<<"t","u","t","o","r","i","a","l">>, <<"l","e","a","r","n">>, <<"c","o","u","r","s","e">>, <<"g","u","i","d","e">>, <<"e","x","p","l","a","i","n","e","d">>, <<"e","d","u","c","a","t","i","o","n">>>>

\* a classifier that tries Business & Finance before Technology
IdentifyNicheBusinessFirst(keywords) ==
    LET keyword_str == Lower(Join(<<" ">>, keywords))
    IN  IF AnyIn(business_keywords, keyword_str) THEN "Business & Finance"
        ELSE IF AnyIn(tech_keywords, keyword_str) THEN "Technology"
        ELSE IF AnyIn(education_keywords, keyword_str) THEN "Education"
        ELSE "General"

\* _identify_niche(keywords)
IdentifyNiche(keywords) ==
    LET keyword_str == Lower(Join(<<" ">>, keywords))
    IN  IF AnyIn(tech_keywords, keyword_str) THEN "Technology"
        ELSE IF AnyIn(business_keywords, keyword_str) THEN "Business & Finance"
        ELSE IF AnyIn(education_keywords, keyword_str) THEN "Education"
        ELSE "General"

default_keywords == <<<<"t","r","e","n","d","i","n","g">>, <<"p","o","p","u","l","a","r">>, <<"v","i","r","a","l">>, <<"t","o","p">>, <<"b","e","s","t">>>>

MaxSeedKeywords == 10

\* _derive_keywords_from_channel(channel_context)
DeriveKeywordsFromChannel(channel_context) ==
    LET keywords == IF channel_context.recent_themes = <<>>
                    THEN default_keywords
                    ELSE channel_context.recent_themes
    IN  Prefix(keywords, MaxSeedKeywords)

\* an expansion whose Education branch adds guide in the place of course
QualifiedKeywordsGuide(niche, keyword) ==
    IF niche = "Technology"
        THEN <<keyword, keyword \o <<" ","t","e","c","h">>, keyword \o <<" ","p","r","o","g","r","a","m","m","i","n","g">>>>
    ELSE IF niche = "Business & Finance"
        THEN <<keyword, keyword \o <<" ","b","u","s","i","n","e","s","s">>, keyword \o <<" ","e","n","t","r","e","p","r","e","n","e","u","r">>>>
    ELSE IF niche = "Education"
        THEN <<keyword, keyword \o <<" ","t","u","t","o","r","i","a","l">>, keyword \o <<" ","g","u","i","d","e">>>>
    ELSE <<keyword>>

\* the loop body of _get_niche_focused_keywords: a keyword and its two
\* niche-qualified versions
QualifiedKeywords(niche, keyword) ==
    IF niche = "Technology"
        THEN <<keyword, keyword \o <<" ","t","e","c","h">>, keyword \o <<" ","p","r","o","g","r","a","m","m","i","n","g">>>>
    ELSE IF niche = "Business & Finance"
        THEN <<keyword, keyword \o <<" ","b","u","s","i","n","e","s","s">>, keyword \o <<" ","e","n","t","r","e","p","r","e","n","e","u","r">>>>
    ELSE IF niche = "Education"
        THEN <<keyword, keyword \o <<" ","t","u","t","o","r","i","a","l">>, keyword \o <<" ","c","o","u","r","s","e">>>>
    ELSE <<keyword>>

RECURSIVE FocusedKeywords(_, _)
FocusedKeywords(niche, user_keywords) ==
    IF user_keywords = <<>> THEN <<>>
    ELSE QualifiedKeywords(niche, Head(user_keywords))
         \o FocusedKeywords(niche, Tail(user_keywords))

\* YouTubeSearch.get_keyword_suggestions(base_keyword)
GetKeywordSuggestions(base_keyword) == <<
    base_keyword \o <<" ","t","u","t","o","r","i","a","l">>,
    base_keyword \o <<" ","g","u","i","d","e">>,
    base_keyword \o <<" ","e","x","p","l","a","i","n","e","d">>,
    base_keyword \o <<" ","f","o","r"," ","b","e","g","i","n","n","e","r","s">>,
    base_keyword \o <<" ","a","d","v","a","n","c","e","d">>,
    base_keyword \o <<" ","t","i","p","s">>,
    base_keyword \o <<" ","t","r","i","c","k","s">>,
    base_keyword \o <<" ","2","0","2","5">>,
    <<"h","o","w"," ","t","o"," ">> \o base_keyword,
    <<"b","e","s","t"," ">> \o base_keyword,
    base_keyword \o <<" ","r","e","v","i","e","w">>,
    base_keyword \o <<" ","c","o","m","p","a","r","i","s","o","n">>,
    base_keyword \o <<" ","v","s">>,
    <<"w","h","y"," ">> \o base_keyword,
    base_keyword \o <<" ","s","e","c","r","e","t","s">> >>


\* keywords[word] = keywords.get(word, 0) + inc on an insertion-ordered
\* dict, kept as a list of [key |-> count, val |-> word] in insertion order
CountWord(keywords, word, inc) ==
    IF \E i \in 1..Len(keywords) : keywords[i].val = word
    THEN [i \in 1..Len(keywords) |->
            IF keywords[i].val = word
            THEN [key |-> keywords[i].key + inc, val |-> word]
            ELSE keywords[i]]
    ELSE Append(keywords, [key |-> inc, val |-> word])

RECURSIVE CountTitleWords(_, _)
CountTitleWords(keywords, words) ==
    IF words = <<>> THEN keywords
    ELSE CountTitleWords(
            IF Len(Head(words)) > 3 THEN CountWord(keywords, Head(words), 2)
            ELSE keywords,
            Tail(words))

RECURSIVE CountTags(_, _)
CountTags(keywords, tags) ==
    IF tags = <<>> THEN keywords
    ELSE CountTags(CountWord(keywords, Lower(Head(tags)), 1), Tail(tags))

RECURSIVE CountVideos(_, _)
CountVideos(keywords, videos) ==
    IF videos = <<>> THEN keywords
    ELSE CountVideos(
            CountTags(CountTitleWords(keywords, Split(Lower(Head(videos).title))),
                      Head(videos).tags),
            Tail(videos))

MaxExtractedKeywords == 50

\* VideoAnalyzer.extract_keywords_from_videos(videos)
ExtractKeywordsFromVideos(videos) ==
    LET sorted_keywords == SortDesc(CountVideos(<<>>, videos))
        top == Prefix(sorted_keywords, MaxExtractedKeywords)
    IN  [i \in 1..Len(top) |-> top[i].val]

RECURSIVE SumViews(_)
SumViews(videos) ==
    IF videos = <<>> THEN 0 ELSE Head(videos).view_count + SumViews(Tail(videos))

MaxRecentThemes == 10

\* _build_channel_context(), given what get_channel_videos returned for the
\* configured channel; avg_views is the quotient sum / n, kept as the pair
BuildChannelContext(channel_id, channel_info, recent_videos) ==
    LET context == [channel_id |-> channel_id,
                    channel_title |-> channel_info.title,
                    subscriber_count |-> channel_info.subscriber_count,
                    niche |-> "General",
                    avg_views |-> [sum |-> 0, n |-> 1],
                    recent_themes |-> <<>>]
        keywords == ExtractKeywordsFromVideos(recent_videos)
    IN  IF channel_id.some /\ recent_videos # <<>>
        THEN [context EXCEPT
                !.avg_views = [sum |-> SumViews(recent_videos),
                               n |-> Len(recent_videos)],
                !.recent_themes = Prefix(keywords, MaxRecentThemes),
                !.niche = IdentifyNiche(keywords)]
        ELSE context

\* the number of videos _build_channel_context adds to
\* session_stats['videos_analyzed']
VideosAnalyzedBy(channel_id, recent_videos) ==
    IF channel_id.some /\ recent_videos # <<>> THEN Len(recent_videos) ELSE 0

\* a trending source that contributes a candidate whatever the channel
DiscoverFromTrendingAlways(channel_info) ==
    << [title |-> <<"V","i","r","a","l"," ","T","e","c","h"," ","N","e","w","s">>, source |-> <<"t","r","e","n","d","i","n","g">>] >>

\* _discover_from_trending(): both branches return the empty list
DiscoverFromTrending(channel_info) ==
    IF channel_info.subscriber_count > 0 THEN <<>> ELSE <<>>

MaxNicheKeywords == 5
MaxVariations == 2

\* the queries _discover_from_search issues, in order, each with the
\* keyword it was expanded from
SearchQueries(niche_keywords) ==
    LET kws == Prefix(niche_keywords, MaxNicheKeywords)
        vars_of(k) == Prefix(GetKeywordSuggestions(kws[k]), MaxVariations)
        n == Len(kws) * MaxVariations
    IN  [q \in 1..n |->
            LET k == ((q - 1) \div MaxVariations) + 1
                v == ((q - 1) % MaxVariations) + 1
            IN  [keyword |-> kws[k], query |-> vars_of(k)[v]]]

\* the topics appended for one query: the relevant videos of its results
RECURSIVE TopicsOfResults(_, _)
TopicsOfResults(keyword, results) ==
    IF results = <<>> THEN <<>>
    ELSE (IF IsRelevantToChannel(Head(results))
          THEN << [title |-> Head(results).title,
                   source |-> <<"s","e","a","r","c","h",":">> \o keyword,
                   views_potential |-> Head(results).view_count,
                   reference_video_id |-> Head(results).video_id] >>
          ELSE <<>>)
         \o TopicsOfResults(keyword, Tail(results))

\* _discover_from_search(keywords) after the niche keywords are known;
\* answers[q] is what search_videos returned for the q-th query
RECURSIVE DiscoverFrom(_, _, _)
DiscoverFrom(queries, answers, q) ==
    IF q > Len(queries) THEN <<>>
    ELSE TopicsOfResults(queries[q].keyword, answers[q])
         \o DiscoverFrom(queries, answers, q + 1)

DiscoverFromSearch(niche_keywords, answers) ==
    DiscoverFrom(SearchQueries(niche_keywords), answers, 1)


----------------------------------------------------------------------------
(* TopicEvaluator (src/src/ai/topic_evaluator.py)                          *)

\* \s of the re module, on the characters responses are made of
IsSpace(c) == c \in {" ", "\n", "\t"}

\* the index after the whitespace that starts at index i
RECURSIVE SkipSpaces(_, _)
SkipSpaces(s, i) ==
    IF i <= Len(s) /\ IsSpace(s[i]) THEN SkipSpaces(s, i + 1) ELSE i

\* the index after the digits that start at index i
RECURSIVE SkipDigits(_, _)
SkipDigits(s, i) ==
    IF i <= Len(s) /\ s[i] \in Digits THEN SkipDigits(s, i + 1) ELSE i

\* \w of the re module
LowerSet == {LowerLetters[i] : i \in 1..26}

IsWordChar(c) == c \in Digits \/ c = "_" \/ c \in UpperSet \/ c \in LowerSet

RECURSIVE SkipWord(_, _)
SkipWord(s, i) ==
    IF i <= Len(s) /\ IsWordChar(s[i]) THEN SkipWord(s, i + 1) ELSE i

DigitValue(c) == CHOOSE d \in 0..9 : <<"0","1","2","3","4","5","6","7","8","9">>[d + 1] = c

\* float(digits) for a string of decimal digits
RECURSIVE DigitsToNumber(_, _)
DigitsToNumber(digits, acc) ==
    IF digits = <<>> THEN acc
    ELSE DigitsToNumber(Tail(digits), 10 * acc + DigitValue(Head(digits)))

\* the end of the capture that starts at index start: (\d+), or (\w+)
CaptureEnd(text, start, word) ==
    IF word THEN SkipWord(text, start) ELSE SkipDigits(text, start)

\* the capture of the match of the literal at index i
CaptureAt(label, text, i, word) ==
    LET start == SkipSpaces(text, i + Len(label))
    IN  SubSeq(text, start, CaptureEnd(text, start, word) - 1)

LeftmostCapture(label, text, hits, word) ==
    IF hits = {} THEN None
    ELSE Some(CaptureAt(label, text, CHOOSE i \in hits : \A k \in hits : i <= k, word))

\* re.search(label + r'\s*(\d+)', text, re.IGNORECASE), or with (\w+) when
\* word is true: the capture of the leftmost match, or None. lowered is
\* text lowercased and label is given in lower case: the literal part
\* matches ignoring case.
SearchFrom(label, text, lowered, word) ==
    LeftmostCapture(label, text,
        {i \in 1..(Len(text) - Len(label) + 1) :
            /\ lowered[i] = label[1]
            /\ SubSeq(lowered, i, i + Len(label) - 1) = label
            /\ CaptureAt(label, text, i, word) # <<>>},
        word)

SearchScore(label, text, lowered) == SearchFrom(Lower(label), text, lowered, FALSE)

SearchWord(label, text, lowered) == SearchFrom(Lower(label), text, lowered, TRUE)

\* the weights with those of importance and watchability exchanged
weights_exchanged ==
    [importance |-> 20, watchability |-> 25, monetization |-> 20,
     popularity |-> 20, innovation |-> 15]

\* the weights of the weighted average, in hundredths
weights == [importance |-> 25, watchability |-> 20, monetization |-> 20,
            popularity |-> 20, innovation |-> 15]

\* total_score is kept in hundredths of a point (the weights are
\* hundredths): the exact value of the weighted sum of integral scores
WeightedTotal(scores) ==
    scores.importance_score * weights.importance
    + scores.watchability_score * weights.watchability
    + scores.monetization_score * weights.monetization
    + scores.popularity_score * weights.popularity
    + scores.innovation_score * weights.innovation

\* scores[field] = float(match.group(1)) if the match exists
ScoreOr(label, text, lowered, default) ==
    LET m == SearchScore(label, text, lowered)
    IN  IF m.some THEN DigitsToNumber(m.v, 0) ELSE default

\* the dict _parse_evaluation_response starts from
InitialScores ==
    [importance_score |-> 0, watchability_score |-> 0, monetization_score |-> 0,
     popularity_score |-> 0, innovation_score |-> 0, total_score |-> 0,
     competition_level |-> <<"M","e","d","i","u","m">>]

\* lines 246-266: the total of the extracted scores and the competition level
WithTotal(extracted, competition_match) ==
    [extracted EXCEPT
        !.total_score = WeightedTotal(extracted),
        !.competition_level =
            IF competition_match.some THEN competition_match.v ELSE @]

\* lines 220-235: the five scores, each kept at its initial value when its
\* pattern does not match
ExtractScores(text, lowered) ==
    [InitialScores EXCEPT
        !.importance_score = ScoreOr(<<"I","M","P","O","R","T","A","N","C","E",":">>, text, lowered, @),
        !.watchability_score = ScoreOr(<<"W","A","T","C","H","A","B","I","L","I","T","Y",":">>, text, lowered, @),
        !.monetization_score = ScoreOr(<<"M","O","N","E","T","I","Z","A","T","I","O","N",":">>, text, lowered, @),
        !.popularity_score = ScoreOr(<<"P","O","P","U","L","A","R","I","T","Y",":">>, text, lowered, @),
        !.innovation_score = ScoreOr(<<"I","N","N","O","V","A","T","I","O","N",":">>, text, lowered, @)]

ParseText(text, lowered) ==
    WithTotal(ExtractScores(text, lowered),
              SearchWord(<<"C","O","M","P","E","T","I","T","I","O","N"," ","L","E","V","E","L",":">>, text, lowered))

\* _parse_evaluation_response(response); response is None or a text. On
\* None the first re.search raises inside the try and the initial dict is
\* returned. The free-text fields recommended_angle, keywords and notes are
\* not modelled.
ParseEvaluationResponse(response) ==
    IF ~response.some THEN InitialScores
    ELSE ParseText(response.v, Lower(response.v))

\* a fallback record of zeros in the place of the neutral one
DefaultScoresZero ==
    [importance_score |-> 0, watchability_score |-> 0, monetization_score |-> 0,
     popularity_score |-> 0, innovation_score |-> 0, total_score |-> 0,
     competition_level |-> <<"M","e","d","i","u","m">>]

\* _default_scores(topic); total_score 50 in hundredths
DefaultScores ==
    [importance_score |-> 50, watchability_score |-> 50, monetization_score |-> 50,
     popularity_score |-> 50, innovation_score |-> 50, total_score |-> 50 * 100,
     competition_level |-> <<"M","e","d","i","u","m">>]

\* evaluate_topic falling back to the default scores also when the response
\* was received and no score could be extracted from it
EvaluateTopicFallbackOnUnparsed(topic, call) ==
    IF call.raised \/ ParseEvaluationResponse(call.response).total_score = 0
    THEN [topic |-> topic, ai_analysis |-> Some(<<>>)] @@ DefaultScores
    ELSE [topic |-> topic, ai_analysis |-> call.response]
         @@ ParseEvaluationResponse(call.response)

\* evaluate_topic(topic, ...): call is what the prompt and provider step
\* did: [raised |-> TRUE] when _build_evaluation_prompt or _call_ai raised,
\* otherwise [raised |-> FALSE, response |-> the text returned, or None]
EvaluateTopic(topic, call) ==
    IF call.raised
    THEN [topic |-> topic, ai_analysis |-> Some(<<>>)] @@ DefaultScores
    ELSE [topic |-> topic, ai_analysis |-> call.response]
         @@ ParseEvaluationResponse(call.response)

\* response.split('\n')
RECURSIVE SplitLinesFrom(_, _, _)
SplitLinesFrom(s, i, line) ==
    IF i > Len(s) THEN <<line>>
    ELSE IF s[i] = "\n" THEN <<line>> \o SplitLinesFrom(s, i + 1, <<>>)
    ELSE SplitLinesFrom(s, i + 1, Append(line, s[i]))

SplitLines(s) == SplitLinesFrom(s, 1, <<>>)

RECURSIVE StripRight(_)
StripRight(s) ==
    IF s # <<>> /\ IsSpace(s[Len(s)]) THEN StripRight(SubSeq(s, 1, Len(s) - 1))
    ELSE s

\* str.strip()
Strip(s) == StripRight(SubSeq(s, SkipSpaces(s, 1), Len(s)))

\* re.sub(r'^\d+[\.\)]\s*', '', line)
RemoveNumbering(line) ==
    LET d == SkipDigits(line, 1)
    IN  IF d > 1 /\ d <= Len(line) /\ line[d] \in {".", ")"}
        THEN SubSeq(line, SkipSpaces(line, d + 1), Len(line))
        ELSE line

RECURSIVE IdeasOfLines(_)
IdeasOfLines(lines) ==
    IF lines = <<>> THEN <<>>
    ELSE LET line == RemoveNumbering(Strip(Head(lines)))
         IN  (IF line # <<>> /\ Len(line) > 10 THEN <<line>> ELSE <<>>)
             \o IdeasOfLines(Tail(lines))

\* generate_topic_ideas(channel_context, count, trends), given what the
\* provider step did (as for EvaluateTopic); on None response.split raises
GenerateTopicIdeas(count, call) ==
    IF call.raised \/ ~call.response.some THEN <<>>
    ELSE Prefix(IdeasOfLines(SplitLines(call.response.v)), count)

IdeaCount == 20

----------------------------------------------------------------------------
(* ResearchDatabase (src/src/storage/database.py); the timestamp field is  *)
(* not modelled                                                            *)

\* topic['favorited'] = False unless the record carries the field
WithFavorited(topic) ==
    IF "favorited" \in DOMAIN topic THEN topic ELSE topic @@ [favorited |-> FALSE]

\* a store that is handed the records that reach the default minimum only
SaveTopicIfHighQuality(store, topic, ok) ==
    IF topic.total_score >= 100 * 60
    THEN [store EXCEPT
            !.save_calls = Append(@, topic.title),
            !.topics_table =
                IF ok THEN Append(@, [doc_id |-> store.last_id + 1] @@ topic)
                ELSE @,
            !.last_id = IF ok THEN @ + 1 ELSE @]
    ELSE store

\* save_topic(topic) on the store: the call is counted, and the record is
\* inserted under the next document id unless the insert raises (ok false)
SaveTopic(store, topic, ok) ==
    [store EXCEPT
        !.save_calls = Append(@, topic.title),
        !.topics_table =
            IF ok THEN Append(@, [doc_id |-> store.last_id + 1] @@ WithFavorited(topic))
            ELSE @,
        !.last_id = IF ok THEN @ + 1 ELSE @]


----------------------------------------------------------------------------
(* What the environment can hand to a run: configurations, arguments and   *)
(* the answers of the external providers                                   *)

\* the number of search queries per run the video-data provider answers
\* with results; every later query fails or finds nothing
MaxAnswered == 1

Video(title, views, id) ==
    [title |-> title, view_count |-> views, video_id |-> id, tags |-> <<>>]

NoChannel == [channel_id |-> None,
              channel_info |-> [title |-> <<"U","n","k","n","o","w","n">>, subscriber_count |-> 0]]
NewChannel == [channel_id |-> Some("UC1"),
               channel_info |-> [title |-> <<"D","e","v">>, subscriber_count |-> 0]]
GrownChannel == [channel_id |-> Some("UC1"),
                 channel_info |-> [title |-> <<"D","e","v">>, subscriber_count |-> 1200]]

\* the deployments of the agent: the configured channel (none: initialize()
\* falls back to Unknown with 0 subscribers; a new one; an established
\* one), research_criteria.min_total_score of settings.yaml (absent or
\* set), MAX_TOPICS_PER_RUN of the environment (unset), and whether the
\* topic store accepts inserts
Deployments ==
    { [channel |-> NoChannel, min_total_score |-> None,
       max_topics_env |-> None, writable |-> TRUE],
      [channel |-> NewChannel, min_total_score |-> Some(72),
       max_topics_env |-> None, writable |-> TRUE],
      [channel |-> GrownChannel, min_total_score |-> None,
       max_topics_env |-> None, writable |-> FALSE],
      [channel |-> GrownChannel, min_total_score |-> Some(72),
       max_topics_env |-> None, writable |-> TRUE] }

\* what get_channel_videos returns: nothing (no uploads, or the fetch
\* failed), or the recent uploads
ChannelUploads ==
    { <<>>,
      << Video(<<"P","y","t","h","o","n"," ","C","o","d","i","n","g"," ","B","a","s","i","c","s">>, 100, "u1"),
         Video(<<"P","y","t","h","o","n"," ","T","i","p","s">>, 50, "u2") >> }

\* the calls of research_topics(keywords, use_trending, use_ai_generation,
\* max_topics): run() and the web layer pass keywords and max_topics only
Call(kw, ut, ua, mt) ==
    [keywords |-> kw, use_trending |-> ut, use_ai_generation |-> ua, max_topics |-> mt]

ResearchCalls ==
    { Call(None, TRUE, TRUE, None),
      Call(Some(<<>>), TRUE, TRUE, Some(2)),
      Call(Some(<<<<"p","y","t","h","o","n">>>>), TRUE, TRUE, None),
      Call(Some(<<<<"p","y","t","h","o","n">>>>), TRUE, TRUE, Some(0)),
      Call(Some(<<<<"p","y","t","h","o","n">>>>), TRUE, TRUE, Some(1)),
      Call(Some(<<<<"p","y","t","h","o","n">>>>), TRUE, TRUE, Some(2)),
      Call(Some(<<<<"p","y","t","h","o","n">>>>), FALSE, TRUE, None),
      Call(None, TRUE, FALSE, Some(2)) }

\* what search_videos returns for one query
SearchAnswers ==
    { << Video(<<"P","y","t","h","o","n"," ","T","u","t","o","r","i","a","l">>, 900, "v1"),
         Video(<<"O","f","f","i","c","i","a","l"," ","M","u","s","i","c"," ","V","i","d","e","o">>, 5000, "v2") >>,
      << Video(<<"p","y","t","h","o","n"," ","t","u","t","o","r","i","a","l">>, 40, "v3"),
         Video(<<"G","o"," ","v","s"," ","R","u","s","t">>, 300, "v4"),
         Video(<<"C","a","t"," ","V","l","o","g">>, 7, "v5") >> }

\* the answers of one run: the first queries are answered, the rest get []
SearchWorlds ==
    UNION { [1..n -> SearchAnswers] : n \in 0..MaxAnswered }

AnswerOf(world, q) == IF q <= Len(world) THEN world[q] ELSE <<>>

Raised == [raised |-> TRUE]
Returned(text) == [raised |-> FALSE, response |-> Some(text)]
ReturnedNone == [raised |-> FALSE, response |-> None]

\* what the provider step of generate_topic_ideas does
IdeaCalls ==
    { Raised,
      Returned(<<"1","."," ","P","y","t","h","o","n"," ","T","u","t","o","r","i","a","l","\n","2",")"," ","A","I"," ","S","t","a","r","t","u","p"," ","T","i","p","s","\n","\n","S","h","o","r","t","\n">>),
      Returned(<<"g","o"," ","v","s"," ","r","u","s","t","\n","3","."," "," ","L","e","a","r","n"," ","R","u","s","t"," ","F","a","s","t">>) }

\* a complete response in the requested format, every score v
FullResponse(v) ==
    <<"I","M","P","O","R","T","A","N","C","E",":"," ">> \o v \o <<"/","1","0","0","\n","f","i","t","s"," ","t","h","e"," ","c","h","a","n","n","e","l","\n","\n","W","A","T","C","H","A","B","I","L","I","T","Y",":"," ">> \o v
    \o <<"/","1","0","0","\n","o","k","\n","\n","M","O","N","E","T","I","Z","A","T","I","O","N",":"," ">> \o v \o <<"/","1","0","0","\n","o","k","\n","\n","P","O","P","U","L","A","R","I","T","Y",":"," ">> \o v
    \o <<"/","1","0","0","\n","o","k","\n","\n","I","N","N","O","V","A","T","I","O","N",":"," ">> \o v
    \o <<"/","1","0","0","\n","o","k","\n","\n","R","E","C","O","M","M","E","N","D","E","D"," ","A","N","G","L","E",":"," ","h","a","n","d","s","-","o","n","\n","\n","K","E","Y","W","O","R","D","S",":"," ","a",","," ","b","\n","\n","C","O","M","P","E","T","I","T","I","O","N"," ","L","E","V","E","L",":"," ","L","o","w","\n","\n","N","O","T","E","S",":"," ","n","o","n","e">>

\* what the prompt and provider step of evaluate_topic does in a run
EvalCalls ==
    { Raised,
      Returned(FullResponse(<<"7","2">>)),
      Returned(FullResponse(<<"5","8">>)),
      Returned(FullResponse(<<"8","1">>)) }

\* what get_trending_videos returns for the evaluation context
TrendingAnswers == { <<>> }

----------------------------------------------------------------------------
(* The agent and one call of research_topics                               *)

NoContext ==
    [channel_id |-> None, channel_title |-> <<>>, subscriber_count |-> 0,
     niche |-> "General", avg_views |-> [sum |-> 0, n |-> 1],
     recent_themes |-> <<>>]

IdleRun ==
    [keywords |-> <<>>, use_trending |-> TRUE, use_ai_generation |-> TRUE,
     max_topics |-> 0, channel_context |-> NoContext, niche_keywords |-> <<>>,
     all_topics |-> <<>>, unique_topics |-> <<>>, topics_to_evaluate |-> <<>>,
     trend_titles |-> <<>>, evaluated_topics |-> <<>>, high_quality |-> <<>>]

\* what the run did, for the properties: the phases whose work was done,
\* in order (a phase is entered when its work follows another phase's); the
\* number of _build_channel_context calls; the arguments as given; the
\* niche that qualified the search keywords; the queries issued; for each
\* evaluate_topic call, whether its provider step raised
IdleObs ==
    [phases |-> <<>>, context_builds |-> 0, max_topics_arg |-> None,
     search_niche |-> "General", queries |-> <<>>, eval_raised |-> <<>>]

Entered(phases, p) ==
    IF phases # <<>> /\ phases[Len(phases)] = p THEN phases ELSE Append(phases, p)

DefaultMaxTopics == 50
DefaultMinScore == 60

\* max_topics or int(os.getenv('MAX_TOPICS_PER_RUN', 50)): a max_topics of
\* None or 0 is falsy
EffectiveMaxTopics(max_topics, env) ==
    IF max_topics.some /\ max_topics.v # 0 THEN max_topics.v
    ELSE IF env.some THEN DigitsToNumber(env.v, 0)
    ELSE DefaultMaxTopics

\* settings.get('research_criteria', {}).get('min_total_score', 60)
MinScore(setting) == IF setting.some THEN setting.v ELSE DefaultMinScore

\* {**topic_data, **evaluation, 'category': ...}: the later entries win
MergeEvaluation(topic_data, evaluation) ==
    [category |-> CategorizeTopic(topic_data.title)] @@ evaluation @@ topic_data

\* [t for t in evaluated_topics if t['total_score'] >= min_score];
\* total_score is in hundredths
RECURSIVE FilterHighQuality(_, _)
FilterHighQuality(evaluated_topics, min_score) ==
    IF evaluated_topics = <<>> THEN <<>>
    ELSE (IF Head(evaluated_topics).total_score >= 100 * min_score
          THEN <<Head(evaluated_topics)>> ELSE <<>>)
         \o FilterHighQuality(Tail(evaluated_topics), min_score)

\* high_quality.sort(key=lambda x: x['total_score'], reverse=True)
SortByTotalScore(high_quality) ==
    LET keyed == [i \in 1..Len(high_quality) |->
                    [key |-> high_quality[i].total_score, val |-> high_quality[i]]]
        sorted == SortDesc(keyed)
    IN  [i \in 1..Len(sorted) |-> sorted[i].val]

TitlesOf(topics) == [i \in 1..Len(topics) |-> topics[i].title]

\* the state after __init__ and initialize()
Init ==
    /\ pc = "idle"
    /\ \E d \in Deployments :
        /\ agent = [channel_id |-> d.channel.channel_id,
                    channel_info |-> d.channel.channel_info,
                    min_total_score |-> d.min_total_score,
                    max_topics_env |-> d.max_topics_env,
                    session_stats |-> [topics_researched |-> 0,
                                       high_quality_count |-> 0,
                                       videos_analyzed |-> 0]]
        /\ db = [topics_table |-> <<>>, last_id |-> 0, save_calls |-> <<>>,
                 writable |-> d.writable]
    /\ run = IdleRun
    /\ obs = IdleObs
    /\ unit = <<>>

\* research_topics(keywords, use_trending, use_ai_generation, max_topics):
\* entry, line 148
StartResearch ==
    /\ pc = "idle"
    /\ \E call \in ResearchCalls :
        /\ run' = [IdleRun EXCEPT
                    !.keywords = IF call.keywords.some THEN call.keywords.v ELSE <<>>,
                    !.use_trending = call.use_trending,
                    !.use_ai_generation = call.use_ai_generation,
                    !.max_topics = EffectiveMaxTopics(call.max_topics,
                                                      agent.max_topics_env)]
        /\ obs' = [IdleObs EXCEPT !.max_topics_arg = call.max_topics]
    /\ pc' = "context"
    /\ UNCHANGED <<agent, db, unit>>

\* lines 151-156: channel_context = self._build_channel_context(), then the
\* seed keywords when none were given
BuildContext ==
    /\ pc = "context"
    /\ \E recent_videos \in ChannelUploads :
        LET context == BuildChannelContext(agent.channel_id, agent.channel_info,
                                           recent_videos)
        IN  /\ run' = [run EXCEPT
                        !.channel_context = context,
                        !.keywords = IF @ = <<>>
                                     THEN DeriveKeywordsFromChannel(context)
                                     ELSE @]
            /\ agent' = [agent EXCEPT !.session_stats.videos_analyzed =
                            @ + VideosAnalyzedBy(agent.channel_id, recent_videos)]
    /\ obs' = [obs EXCEPT !.phases = Entered(@, "ContextBuilt"),
                          !.context_builds = @ + 1]
    /\ pc' = "trending"
    /\ UNCHANGED <<db, unit>>

\* lines 163-167: the trending source
DiscoverTrending ==
    /\ pc = "trending"
    /\ IF run.use_trending
       THEN /\ run' = [run EXCEPT !.all_topics =
                        @ \o DiscoverFromTrending(agent.channel_info)]
            /\ obs' = [obs EXCEPT !.phases = Entered(@, "Discovered")]
       ELSE UNCHANGED <<run, obs>>
    /\ pc' = "niche_keywords"
    /\ UNCHANGED <<agent, db, unit>>

\* _discover_from_search, line 342: _get_niche_focused_keywords builds the
\* channel context again and takes the niche of that second context
NicheFocusedKeywords ==
    /\ pc = "niche_keywords"
    /\ \E recent_videos \in ChannelUploads :
        LET niche == BuildChannelContext(agent.channel_id, agent.channel_info,
                                         recent_videos).niche
        IN  /\ run' = [run EXCEPT !.niche_keywords =
                        FocusedKeywords(niche, run.keywords)]
            /\ agent' = [agent EXCEPT !.session_stats.videos_analyzed =
                            @ + VideosAnalyzedBy(agent.channel_id, recent_videos)]
            /\ obs' = [obs EXCEPT !.phases = Entered(@, "ContextBuilt"),
                                  !.context_builds = @ + 1,
                                  !.search_niche = niche]
    /\ pc' = "search"
    /\ UNCHANGED <<db, unit>>

\* _discover_from_search, lines 344-366, and lines 172-173
DiscoverSearch ==
    /\ pc = "search"
    /\ \E world \in SearchWorlds :
        LET queries == SearchQueries(run.niche_keywords)
            answers == [q \in 1..Len(queries) |-> AnswerOf(world, q)]
        IN  /\ run' = [run EXCEPT !.all_topics =
                        @ \o DiscoverFromSearch(run.niche_keywords, answers)]
            /\ obs' = [obs EXCEPT !.phases = Entered(@, "Discovered"),
                                  !.queries = [q \in 1..Len(queries) |-> queries[q].query]]
    /\ pc' = "ideas"
    /\ UNCHANGED <<agent, db, unit>>

\* lines 176-186: the AI-generated topics
GenerateIdeas ==
    /\ pc = "ideas"
    /\ IF run.use_ai_generation
       THEN \E call \in IdeaCalls :
            LET ai_topics == GenerateTopicIdeas(IdeaCount, call)
            IN  /\ run' = [run EXCEPT !.all_topics = @ \o
                            [i \in 1..Len(ai_topics) |->
                                [title |-> ai_topics[i], source |-> <<"a","i","_","g","e","n","e","r","a","t","e","d">>]]]
                /\ obs' = [obs EXCEPT !.phases = Entered(@, "Discovered")]
       ELSE UNCHANGED <<run, obs>>
    /\ pc' = "dedup"
    /\ UNCHANGED <<agent, db, unit>>

\* lines 189-196: deduplicate, then keep the first max_topics
Deduplicate ==
    /\ pc = "dedup"
    /\ LET unique_topics == DeduplicateTopics(run.all_topics)
       IN  run' = [run EXCEPT
                    !.unique_topics = unique_topics,
                    !.topics_to_evaluate = Prefix(unique_topics, run.max_topics)]
    /\ obs' = [obs EXCEPT !.phases = Entered(@, "Deduplicated")]
    /\ pc' = "trends"
    /\ UNCHANGED <<agent, db, unit>>

\* lines 199-204: the trend titles for the evaluation prompt
FetchTrends ==
    /\ pc = "trends"
    /\ \E trends \in TrendingAnswers :
        run' = [run EXCEPT !.trend_titles = TitlesOf(trends)]
    /\ obs' = [obs EXCEPT !.phases = Entered(@, "Evaluated")]
    /\ pc' = "evaluate"
    /\ UNCHANGED <<agent, db, unit>>

\* an evaluation loop that a failed provider step or a failed insert ends:
\* the exception leaves research_topics
EvaluateNextUnlessFailed ==
    /\ pc = "evaluate"
    /\ Len(run.evaluated_topics) < Len(run.topics_to_evaluate)
    /\ db.writable
    /\ \E call \in EvalCalls :
        \E topic_data \in {run.topics_to_evaluate[Len(run.evaluated_topics) + 1]} :
        \E evaluation \in {EvaluateTopic(topic_data.title, call)} :
        \E evaluated_topic \in {MergeEvaluation(topic_data, evaluation)} :
            /\ ~call.raised
            /\ run' = [run EXCEPT !.evaluated_topics =
                        Append(@, WithFavorited(evaluated_topic))]
            /\ agent' = [agent EXCEPT !.session_stats.topics_researched = @ + 1]
            /\ db' = SaveTopic(db, evaluated_topic, db.writable)
            /\ obs' = [obs EXCEPT !.phases = Entered(@, "Evaluated"),
                                  !.eval_raised = Append(@, call.raised)]
    /\ pc' = "evaluate"
    /\ UNCHANGED unit

\* lines 209-246: one iteration of the evaluation loop
EvaluateNext ==
    /\ pc = "evaluate"
    /\ Len(run.evaluated_topics) < Len(run.topics_to_evaluate)
    /\ \E call \in EvalCalls :
        \E topic_data \in {run.topics_to_evaluate[Len(run.evaluated_topics) + 1]} :
        \E evaluation \in {EvaluateTopic(topic_data.title, call)} :
        \E evaluated_topic \in {MergeEvaluation(topic_data, evaluation)} :
            /\ run' = [run EXCEPT !.evaluated_topics =
                        Append(@, WithFavorited(evaluated_topic))]
            /\ agent' = [agent EXCEPT !.session_stats.topics_researched = @ + 1]
            /\ db' = SaveTopic(db, evaluated_topic, db.writable)
            /\ obs' = [obs EXCEPT !.phases = Entered(@, "Evaluated"),
                                  !.eval_raised = Append(@, call.raised)]
    /\ pc' = "evaluate"
    /\ UNCHANGED unit

\* lines 251-254: the threshold filter
FilterQuality ==
    /\ pc = "evaluate"
    /\ Len(run.evaluated_topics) = Len(run.topics_to_evaluate)
    /\ LET high_quality == FilterHighQuality(run.evaluated_topics,
                                             MinScore(agent.min_total_score))
       IN  /\ run' = [run EXCEPT !.high_quality = high_quality]
           /\ agent' = [agent EXCEPT !.session_stats.high_quality_count =
                            Len(high_quality)]
    /\ obs' = [obs EXCEPT !.phases = Entered(@, "Filtered")]
    /\ pc' = "rank"
    /\ UNCHANGED <<db, unit>>

\* lines 257-261: the ranking sort and the return
Rank ==
    /\ pc = "rank"
    /\ run' = [run EXCEPT !.high_quality = SortByTotalScore(@)]
    /\ obs' = [obs EXCEPT !.phases = Entered(@, "Ranked")]
    /\ pc' = "done"
    /\ UNCHANGED <<agent, db, unit>>

Next ==
    \/ StartResearch
    \/ BuildContext
    \/ DiscoverTrending
    \/ NicheFocusedKeywords
    \/ DiscoverSearch
    \/ GenerateIdeas
    \/ Deduplicate
    \/ FetchTrends
    \/ EvaluateNext
    \/ FilterQuality
    \/ Rank

Spec == Init /\ [][Next]_vars

----------------------------------------------------------------------------
(* The deduplicator and the evaluation protocol on their own: every input  *)
(* of a bounded set is handed to the function once                         *)

\* the longest candidate list handed to _deduplicate_topics
MaxPool == 3

\* the largest number of pieces an evaluator response is put together from
MaxPieces == 3

Candidates ==
    { [title |-> t, source |-> s.source, views_potential |-> s.views]
        : t \in {<<"G","o"," ","v","s"," ","R","u","s","t">>, <<"G","O"," ","V","S"," ","R","U","S","T">>, <<"g","o"," ","v","s"," ","r","u","s","t">>, <<"A","I"," ","T","i","p","s">>},
          s \in {[source |-> <<"s","e","a","r","c","h",":","r","u","s","t">>, views |-> 300],
                 [source |-> <<"a","i","_","g","e","n","e","r","a","t","e","d">>, views |-> 0]} }

CandidateLists == UNION { [1..n -> Candidates] : n \in 0..MaxPool }

Pieces ==
    { <<"I","M","P","O","R","T","A","N","C","E",":"," ">>, <<"i","m","p","o","r","t","a","n","c","e",":">>, <<"W","A","T","C","H","A","B","I","L","I","T","Y",":","\n">>, <<"M","O","N","E","T","I","Z","A","T","I","O","N",":"," ">>,
      <<"P","O","P","U","L","A","R","I","T","Y",":">>, <<"I","N","N","O","V","A","T","I","O","N",":"," ">>, <<"C","O","M","P","E","T","I","T","I","O","N"," ","L","E","V","E","L",":"," ">>,
      <<"8","5","/","1","0","0","\n">>, <<"1","5","0"," ">>, <<"H","i","g","h","\n">> }

PieceTexts ==
    { Join(<<>>, pieces) : pieces \in UNION { [1..n -> Pieces] : n \in 0..MaxPieces } }

\* responses with some of the labelled lines only
PartialResponses ==
    { <<"I","M","P","O","R","T","A","N","C","E",":"," ","8","5","/","1","0","0","\n","P","O","P","U","L","A","R","I","T","Y",":"," ","1","5","0","/","1","0","0","\n">>,
      <<"I","m","p","o","r","t","a","n","c","e",":"," ","8","5","\n","W","a","t","c","h","a","b","i","l","i","t","y",":"," ","7","0","\n","M","o","n","e","t","i","z","a","t","i","o","n",":"," ","6","0","\n","C","o","m","p","e","t","i","t","i","o","n"," ","L","e","v","e","l",":"," ","L","o","w","\n">>,
      <<"I","N","N","O","V","A","T","I","O","N",":"," ","1","0","0","\n","M","O","N","E","T","I","Z","A","T","I","O","N",":"," ","1","0","0","\n">>,
      <<"I","M","P","O","R","T","A","N","C","E",":"," ","8","0","\n","C","O","M","P","E","T","I","T","I","O","N"," ","L","E","V","E","L",":"," ","V","e","r","y"," ","H","i","g","h","\n">> }

ResponseTexts ==
    PieceTexts \cup PartialResponses
               \cup { FullResponse(v) : v \in {<<"0">>, <<"5","0">>, <<"1","0","0">>, <<"1","5","0">>} }

UnitEvalCalls == {Raised, ReturnedNone} \cup { Returned(text) : text \in ResponseTexts }

InitUnit ==
    /\ pc = "unit"
    /\ agent = <<>>
    /\ db = <<>>
    /\ run = IdleRun
    /\ obs = IdleObs
    /\ \/ \E topics \in CandidateLists :
            unit = [fn |-> "deduplicate", input |-> topics, done |-> FALSE,
                    output |-> <<>>]
       \/ \E call \in UnitEvalCalls :
            unit = [fn |-> "evaluate", input |-> call, done |-> FALSE,
                    output |-> <<>>]

\* unique_topics = self._deduplicate_topics(all_topics)
ApplyDeduplicate ==
    /\ pc = "unit"
    /\ unit.fn = "deduplicate"
    /\ ~unit.done
    /\ unit' = [unit EXCEPT !.done = TRUE, !.output = DeduplicateTopics(unit.input)]
    /\ UNCHANGED <<pc, agent, db, run, obs>>

\* evaluation = self.topic_evaluator.evaluate_topic(topic=..., ...)
ApplyEvaluate ==
    /\ pc = "unit"
    /\ unit.fn = "evaluate"
    /\ ~unit.done
    /\ unit' = [unit EXCEPT !.done = TRUE,
                            !.output = EvaluateTopic(<<"A","I"," ","T","i","p","s">>, unit.input)]
    /\ UNCHANGED <<pc, agent, db, run, obs>>

NextUnit ==
    \/ ApplyDeduplicate
    \/ ApplyEvaluate

SpecUnit == InitUnit /\ [][NextUnit]_vars

----------------------------------------------------------------------------
(* Properties of the deduplicator and the evaluation protocol (SpecUnit)   *)

DedupDone == unit.fn = "deduplicate" /\ unit.done
EvalDone == unit.fn = "evaluate" /\ unit.done

\* the index in the input of the first entry with the lowercased title of t
FirstSeen(topics, t) ==
    CHOOSE i \in 1..Len(topics) :
        /\ Lower(topics[i].title) = Lower(t.title)
        /\ \A k \in 1..(i - 1) : Lower(topics[k].title) # Lower(t.title)

\* C1: the output of _deduplicate_topics has no two entries with titles
\* equal after lowercasing; every entry is the first input entry with its
\* lowercased title, unchanged (title, source, metadata); the entries are in
\* first-seen order; and every lowercased title of the input is kept once,
\* so exactly the later duplicates are dropped.
C1_DedupKeepsFirstOccurrences ==
    DedupDone =>
        LET topics == unit.input
            unique == unit.output
        IN  /\ \A i, j \in 1..Len(unique) :
                i # j => Lower(unique[i].title) # Lower(unique[j].title)
            /\ \A j \in 1..Len(unique) :
                /\ \E i \in 1..Len(topics) :
                    Lower(topics[i].title) = Lower(unique[j].title)
                /\ unique[j] = topics[FirstSeen(topics, unique[j])]
            /\ \A i, j \in 1..Len(unique) :
                i < j => FirstSeen(topics, unique[i]) < FirstSeen(topics, unique[j])
            /\ \A i \in 1..Len(topics) :
                \E j \in 1..Len(unique) :
                    Lower(unique[j].title) = Lower(topics[i].title)

\* a later duplicate from another source and in another case was dropped
C1_Witness ==
    /\ DedupDone
    /\ Len(unit.input) = 3
    /\ Len(unit.output) = 2
    /\ unit.input[1].title = <<"G","o"," ","v","s"," ","R","u","s","t">>
    /\ unit.input[1].source = <<"a","i","_","g","e","n","e","r","a","t","e","d">>
    /\ unit.input[3].title = <<"G","O"," ","V","S"," ","R","U","S","T">>
    /\ unit.input[3].source = <<"s","e","a","r","c","h",":","r","u","s","t">>
    /\ unit.output[1] = unit.input[1]

ResponseText == IF unit.input.response.some THEN unit.input.response.v ELSE <<>>

\* the labelled line of a dimension is missing: its label occurs nowhere
LabelMissing(label, text) == ~Contains(Lower(label), Lower(text))

\* C2: on a successful call every dimension whose labelled line is missing
\* from the response has score 0, and total_score is the weighted sum
\* 0.25, 0.20, 0.20, 0.20, 0.15 of the five scores of the result (in
\* hundredths: 25, 20, 20, 20, 15); all five at 100 give 100 and all five at
\* 0 give 0.
C2_MissingScoresZeroAndWeightedTotal ==
    (EvalDone /\ ~unit.input.raised) =>
        LET r == unit.output
        IN  /\ LabelMissing(<<"I","M","P","O","R","T","A","N","C","E",":">>, ResponseText) => r.importance_score = 0
            /\ LabelMissing(<<"W","A","T","C","H","A","B","I","L","I","T","Y",":">>, ResponseText) => r.watchability_score = 0
            /\ LabelMissing(<<"M","O","N","E","T","I","Z","A","T","I","O","N",":">>, ResponseText) => r.monetization_score = 0
            /\ LabelMissing(<<"P","O","P","U","L","A","R","I","T","Y",":">>, ResponseText) => r.popularity_score = 0
            /\ LabelMissing(<<"I","N","N","O","V","A","T","I","O","N",":">>, ResponseText) => r.innovation_score = 0
            /\ r.total_score = 25 * r.importance_score + 20 * r.watchability_score
                               + 20 * r.monetization_score + 20 * r.popularity_score
                               + 15 * r.innovation_score
            /\ ResponseText = FullResponse(<<"1","0","0">>) => r.total_score = 100 * 100
            /\ ResponseText = FullResponse(<<"0">>) => r.total_score = 0

\* a response with the importance and popularity lines only
C2_Witness ==
    /\ EvalDone
    /\ ~unit.input.raised
    /\ LabelMissing(<<"W","A","T","C","H","A","B","I","L","I","T","Y",":">>, ResponseText)
    /\ unit.output.importance_score = 85
    /\ unit.output.popularity_score = 150
    /\ unit.output.watchability_score = 0
    /\ unit.output.total_score = 25 * 85 + 20 * 150

\* none of the labels of the format occurs in the response
NoLabelledLine(text) ==
    /\ LabelMissing(<<"I","M","P","O","R","T","A","N","C","E",":">>, text)
    /\ LabelMissing(<<"W","A","T","C","H","A","B","I","L","I","T","Y",":">>, text)
    /\ LabelMissing(<<"M","O","N","E","T","I","Z","A","T","I","O","N",":">>, text)
    /\ LabelMissing(<<"P","O","P","U","L","A","R","I","T","Y",":">>, text)
    /\ LabelMissing(<<"I","N","N","O","V","A","T","I","O","N",":">>, text)
    /\ LabelMissing(<<"C","O","M","P","E","T","I","T","I","O","N"," ","L","E","V","E","L",":">>, text)

\* the record evaluate_topic returns from its except branch
FallbackRecord(topic) ==
    [topic |-> topic, importance_score |-> 50, watchability_score |-> 50,
     monetization_score |-> 50, popularity_score |-> 50, innovation_score |-> 50,
     total_score |-> 50 * 100, competition_level |-> <<"M","e","d","i","u","m">>,
     ai_analysis |-> Some(<<>>)]

\* C3: when the call succeeded and the response has no recognised labelled
\* line, the five scores and total_score are 0 and competition_level is
\* Medium; the uniform-50 fallback record is returned only when the
\* prompt/call step raised.
C3_UnparseableGivesZerosNotFallback ==
    EvalDone =>
        /\ (~unit.input.raised /\ NoLabelledLine(ResponseText)) =>
            /\ unit.output.importance_score = 0
            /\ unit.output.watchability_score = 0
            /\ unit.output.monetization_score = 0
            /\ unit.output.popularity_score = 0
            /\ unit.output.innovation_score = 0
            /\ unit.output.total_score = 0
            /\ unit.output.competition_level = <<"M","e","d","i","u","m">>
        /\ unit.output = FallbackRecord(unit.output.topic) => unit.input.raised

\* a successful call whose text has scores and a level but no label
C3_Witness ==
    /\ EvalDone
    /\ ~unit.input.raised
    /\ ResponseText = <<"8","5","/","1","0","0","\n","H","i","g","h","\n">>
    /\ unit.output.total_score = 0

\* C5: every result of evaluate_topic has its five scores in [0,100] and
\* its total_score in [0,100] (in hundredths: at most 100 * 100).
C5_ScoresInRange ==
    EvalDone =>
        /\ unit.output.importance_score \in 0..100
        /\ unit.output.watchability_score \in 0..100
        /\ unit.output.monetization_score \in 0..100
        /\ unit.output.popularity_score \in 0..100
        /\ unit.output.innovation_score \in 0..100
        /\ unit.output.total_score \in 0..(100 * 100)


----------------------------------------------------------------------------
(* Properties of a research run (Spec)                                     *)

Evaluated == run.evaluated_topics
Returned_topics == run.high_quality
TotalsOf(topics) == [i \in 1..Len(topics) |-> topics[i].total_score]
LoopFinished == pc \in {"rank", "done"}

\* C4: every candidate whose provider step raised has the fallback record,
\* all five scores 50, total_score 50 (5000 hundredths) and competition
\* level Medium, and the run evaluates the candidates after it: when the
\* loop has finished every candidate of the truncated list is evaluated.
C4_ProviderFailureGivesFallbackAndRunContinues ==
    /\ Len(obs.eval_raised) = Len(Evaluated)
    /\ \A i \in 1..Len(Evaluated) :
        obs.eval_raised[i] =>
            /\ Evaluated[i].importance_score = 50
            /\ Evaluated[i].watchability_score = 50
            /\ Evaluated[i].monetization_score = 50
            /\ Evaluated[i].popularity_score = 50
            /\ Evaluated[i].innovation_score = 50
            /\ Evaluated[i].total_score = 50 * 100
            /\ Evaluated[i].competition_level = <<"M","e","d","i","u","m">>
    /\ LoopFinished => Len(Evaluated) = Len(run.topics_to_evaluate)

\* the provider failed for the first candidate and answered for a later one
C4_Witness ==
    /\ pc = "done"
    /\ Len(Evaluated) >= 2
    /\ obs.eval_raised[1]
    /\ ~obs.eval_raised[2]
    /\ Evaluated[1].total_score = 50 * 100
    /\ Evaluated[2].total_score = 81 * 100

\* the minimum of the configuration, 60 when it has none
ConfiguredMinimum ==
    IF agent.min_total_score.some THEN agent.min_total_score.v ELSE 60

\* the positions of the evaluated candidates that reach the minimum
Kept == { i \in 1..Len(Evaluated) :
            Evaluated[i].total_score >= 100 * ConfiguredMinimum }

\* the place of candidate i in the returned list: after the kept candidates
\* with a greater total and those with an equal total evaluated before it
PlaceOf(i) ==
    1 + Cardinality({ j \in Kept :
            \/ Evaluated[j].total_score > Evaluated[i].total_score
            \/ /\ Evaluated[j].total_score = Evaluated[i].total_score
               /\ j < i })

\* C6: the list research_topics returns has exactly the evaluated
\* candidates with total_score >= the configured minimum (60 by default),
\* by total_score descending and, for equal totals, in evaluation order;
\* the totals 72, 58, 81 with the minimum 60 give 81, 72.
C6_ReturnsFilteredSortedStable ==
    pc = "done" =>
        /\ Len(Returned_topics) = Cardinality(Kept)
        /\ \A i \in Kept : Returned_topics[PlaceOf(i)] = Evaluated[i]
        /\ \A k \in 1..(Len(Returned_topics) - 1) :
            Returned_topics[k].total_score >= Returned_topics[k + 1].total_score
        /\ (TotalsOf(Evaluated) = <<7200, 5800, 8100>> /\ ConfiguredMinimum = 60)
            => TotalsOf(Returned_topics) = <<8100, 7200>>

\* two candidates with equal totals are returned in evaluation order and a
\* candidate below the minimum between them is left out
C6_Witness ==
    /\ pc = "done"
    /\ ConfiguredMinimum = 60
    /\ TotalsOf(Evaluated) = <<8100, 5800, 8100>>
    /\ Returned_topics = <<Evaluated[1], Evaluated[3]>>

\* C7: save_topic is called exactly once for each evaluated candidate, in
\* evaluation order and whatever its total_score, and all the calls are
\* made before the threshold filter and the sort: when the filter runs,
\* every candidate of the truncated list has been handed to the store.
C7_EveryEvaluatedCandidateSavedBeforeFilter ==
    /\ db.save_calls = TitlesOf(Evaluated)
    /\ LoopFinished => Len(db.save_calls) = Len(run.topics_to_evaluate)
    /\ ("Filtered" \in { obs.phases[k] : k \in 1..Len(obs.phases) })
        => Len(db.save_calls) = Len(run.topics_to_evaluate)

\* a candidate below the minimum was saved and is not in the returned list
C7_Witness ==
    /\ pc = "done"
    /\ Len(Evaluated) = 2
    /\ Evaluated[1].total_score = 58 * 100
    /\ Evaluated[2].total_score = 81 * 100
    /\ Len(Returned_topics) = 1
    /\ db.save_calls = <<Evaluated[1].title, Evaluated[2].title>>
    /\ Len(db.topics_table) = 2

\* the budget as configured: the max_topics argument when one is given,
\* else MAX_TOPICS_PER_RUN, else 50
ConfiguredBudget ==
    IF obs.max_topics_arg.some THEN obs.max_topics_arg.v
    ELSE IF agent.max_topics_env.some THEN DigitsToNumber(agent.max_topics_env.v, 0)
    ELSE 50

\* C8: the number of evaluated candidates never exceeds the configured
\* budget, the evaluated candidates are the leading candidates of the
\* deduplicated list, and no other candidate is handed to the store.
C8_EvaluatedWithinBudget ==
    pc # "idle" =>
        /\ Len(Evaluated) <= ConfiguredBudget
        /\ Len(Evaluated) <= Len(run.unique_topics)
        /\ \A i \in 1..Len(Evaluated) :
            Evaluated[i].title = run.unique_topics[i].title
        /\ db.save_calls = TitlesOf(Evaluated)

PhaseRank ==
    [ContextBuilt |-> 1, Discovered |-> 2, Deduplicated |-> 3, Evaluated |-> 4,
     Filtered |-> 5, Ranked |-> 6]

\* C9: the phases of a run are entered in the order ContextBuilt,
\* Discovered, Deduplicated, Evaluated, Filtered, Ranked: no work of a
\* phase is done after the work of a later phase has started.
C9_PhasesNeverGoBack ==
    \A i, j \in 1..Len(obs.phases) :
        i < j => PhaseRank[obs.phases[i]] <= PhaseRank[obs.phases[j]]

\* C10: the channel context is built once per run, and the niche that
\* qualifies the search keywords is the niche of the context handed to idea
\* generation and to every evaluation.
C10_ContextBuiltOncePerRun ==
    /\ obs.context_builds <= 1
    /\ pc \in {"search", "ideas", "dedup", "trends", "evaluate", "rank", "done"}
        => /\ obs.context_builds = 1
           /\ obs.search_niche = run.channel_context.niche

----------------------------------------------------------------------------
(* CompetitorAnalyzer._calculate_upload_frequency, src/src/youtube/        *)
(* competitor.py. A publish date is the number of hours since a fixed      *)
(* instant, or None when published_at is missing or fromisoformat rejects  *)
(* it; videos_per_week is kept in tenths, as round(x, 1) leaves it         *)

HoursPerDay == 24
DaysPerWeek == 7

\* round(num / den, 1) in tenths: to the nearest tenth, a tie to the even one
RoundTenths(num, den) ==
    LET floor == (10 * num) \div den
        twice == 2 * ((10 * num) % den)
    IN  IF twice > den \/ (twice = den /\ floor % 2 = 1) THEN floor + 1 ELSE floor

UnknownFrequency == [videos_per_week |-> 0, consistency |-> "unknown"]

MaxOf(S) == CHOOSE x \in S : \A y \in S : y <= x
MinOf(S) == CHOOSE x \in S : \A y \in S : x <= y

\* the labels of lines 227-234, on videos_per_week = count / (total_days / 7)
ConsistencyOf(count, total_days) ==
    IF DaysPerWeek * count >= 7 * total_days THEN "daily"
    ELSE IF DaysPerWeek * count >= 3 * total_days THEN "frequent"
    ELSE IF DaysPerWeek * count >= 1 * total_days THEN "weekly"
    ELSE "occasional"

\* a rate computed without the guard on a span of 0 days: the division
\* raises ZeroDivisionError
FrequencyUnguarded(videos, dates, total_days) ==
    IF total_days = 0 THEN [raised |-> "ZeroDivisionError"]
    ELSE [videos_per_week |-> RoundTenths(DaysPerWeek * Len(videos), total_days),
          consistency |-> ConsistencyOf(Len(videos), total_days)]

\* lines 221-241: the guard on the span, the rate and its label
FrequencyOf(videos, dates, total_days) ==
    IF total_days = 0 THEN UnknownFrequency
    ELSE [videos_per_week |-> RoundTenths(DaysPerWeek * Len(videos), total_days),
          consistency |-> ConsistencyOf(Len(videos), total_days)]

\* lines 209-219: the positions of the videos whose date parses; dates,
\* sorted, from the first to the last
DatedVideos(videos) == { i \in 1..Len(videos) : videos[i].published_at.some }

TotalDays(videos, dated) ==
    LET hours == { videos[i].published_at.v : i \in dated }
    IN  (MaxOf(hours) - MinOf(hours)) \div HoursPerDay

\* _calculate_upload_frequency(videos)
CalculateUploadFrequency(videos) ==
    IF Len(videos) < 2 THEN UnknownFrequency
    ELSE IF Cardinality(DatedVideos(videos)) < 2 THEN UnknownFrequency
    ELSE FrequencyOf(videos, DatedVideos(videos),
                     TotalDays(videos, DatedVideos(videos)))

----------------------------------------------------------------------------
(* The relevance filter, the categorizer and the upload frequency on their *)
(* own: every input of a bounded set is handed to the function once        *)

\* the most words of a title
MaxTitleWords == 2
\* the longest list of videos handed to _calculate_upload_frequency
MaxDated == 3

TitleWords ==
    { <<"O","f","f","i","c","i","a","l"," ","M","u","s","i","c"," ","V","i","d","e","o">>, <<"P","y","t","h","o","n">>, <<"T","u","t","o","r","i","a","l">>, <<"v","s">>, <<"R","e","v","i","e","w">>,
      <<"T","i","p","s"," ","&"," ","T","r","i","c","k","s">>, <<"N","e","w","s">>, <<"G","e","n","e","r","a","l">>, <<"C","o","m","p","a","r","i","s","o","n">>, <<"C","a","t"," ","V","l","o","g">>, <<"(","O","f","f","i","c","i","a","l">> }

Titles ==
    { Join(<<" ">>, words) :
        words \in UNION { [1..n -> TitleWords] : n \in 0..MaxTitleWords } }

PublishDates ==
    { None, Some(0), Some(12), Some(24), Some(7 * 24), Some(14 * 24 + 12), Some(22 * 24) }

DatedLists ==
    { [i \in 1..Len(dates) |-> [published_at |-> dates[i]]] :
        dates \in UNION { [1..n -> PublishDates] : n \in 0..MaxDated } }

InitHelpers ==
    /\ pc = "helper"
    /\ agent = <<>>
    /\ db = <<>>
    /\ run = IdleRun
    /\ obs = IdleObs
    /\ \/ \E title \in Titles :
            unit = [fn |-> "relevant", input |-> [title |-> title], done |-> FALSE,
                    output |-> <<>>]
       \/ \E title \in Titles :
            unit = [fn |-> "categorize", input |-> title, done |-> FALSE,
                    output |-> <<>>]
       \/ \E videos \in DatedLists :
            unit = [fn |-> "frequency", input |-> videos, done |-> FALSE,
                    output |-> <<>>]

ApplyRelevant ==
    /\ pc = "helper"
    /\ unit.fn = "relevant"
    /\ ~unit.done
    /\ unit' = [unit EXCEPT !.done = TRUE, !.output = IsRelevantToChannel(unit.input)]
    /\ UNCHANGED <<pc, agent, db, run, obs>>

ApplyCategorize ==
    /\ pc = "helper"
    /\ unit.fn = "categorize"
    /\ ~unit.done
    /\ unit' = [unit EXCEPT !.done = TRUE, !.output = CategorizeTopic(unit.input)]
    /\ UNCHANGED <<pc, agent, db, run, obs>>

ApplyFrequency ==
    /\ pc = "helper"
    /\ unit.fn = "frequency"
    /\ ~unit.done
    /\ unit' = [unit EXCEPT !.done = TRUE,
                            !.output = CalculateUploadFrequency(unit.input)]
    /\ UNCHANGED <<pc, agent, db, run, obs>>

NextHelpers ==
    \/ ApplyRelevant
    \/ ApplyCategorize
    \/ ApplyFrequency

SpecHelpers == InitHelpers /\ [][NextHelpers]_vars


----------------------------------------------------------------------------
(* Properties of the relevance filter, the categorizer and the upload      *)
(* frequency (SpecHelpers)                                                 *)

RelevantDone == unit.fn = "relevant" /\ unit.done
CategorizeDone == unit.fn = "categorize" /\ unit.done
FrequencyDone == unit.fn = "frequency" /\ unit.done

\* the lowercased title contains a string of the list
HasAny(list, title) ==
    \E k \in 1..Len(list) : Contains(list[k], Lower(title))

\* C11: the relevance filter rejects every title that contains a deny-list
\* string, also when it contains an allow-list string; it rejects every
\* title with no string of either list; it accepts exactly the titles with
\* no deny-list string and at least one allow-list string.
C11_DenyListFirstThenAllowList ==
    RelevantDone =>
        LET title == unit.input.title
            denied == HasAny(irrelevant_keywords, title)
            allowed == HasAny(relevant_keywords, title)
        IN  /\ denied => unit.output = FALSE
            /\ (~denied /\ ~allowed) => unit.output = FALSE
            /\ unit.output = (~denied /\ allowed)
            /\ Contains(<<"o","f","f","i","c","i","a","l"," ","m","u","s","i","c"," ","v","i","d","e","o">>, Lower(title)) => unit.output = FALSE

\* a title with a deny-list string and an allow-list string is rejected
C11_Witness ==
    /\ RelevantDone
    /\ unit.input.title = <<"O","f","f","i","c","i","a","l"," ","M","u","s","i","c"," ","V","i","d","e","o"," ","T","u","t","o","r","i","a","l">>
    /\ HasAny(relevant_keywords, unit.input.title)
    /\ unit.output = FALSE

\* the buckets in the order of the cascade
Buckets ==
    << [label |-> "Tutorial", words |-> <<<<"t","u","t","o","r","i","a","l">>, <<"h","o","w"," ","t","o">>, <<"g","u","i","d","e">>, <<"l","e","a","r","n">>>>],
       [label |-> "Review", words |-> <<<<"r","e","v","i","e","w">>, <<"u","n","b","o","x">>, <<"t","e","s","t">>>>],
       [label |-> "Comparison", words |-> <<<<"v","s">>, <<"v","e","r","s","u","s">>, <<"c","o","m","p","a","r","i","s","o","n">>, <<"c","o","m","p","a","r","e">>>>],
       [label |-> "Tips & Tricks", words |-> <<<<"t","i","p","s">>, <<"t","r","i","c","k","s">>, <<"h","a","c","k","s">>>>],
       [label |-> "News", words |-> <<<<"n","e","w","s">>, <<"u","p","d","a","t","e">>, <<"a","n","n","o","u","n","c","e","m","e","n","t">>>>] >>

Categories == {"Tutorial", "Review", "Comparison", "Tips & Tricks", "News", "General"}

\* the category labels as titles
LabelTitle ==
    [c \in Categories |->
        CASE c = "Tutorial" -> <<"T","u","t","o","r","i","a","l">>
          [] c = "Review" -> <<"R","e","v","i","e","w">>
          [] c = "Comparison" -> <<"C","o","m","p","a","r","i","s","o","n">>
          [] c = "Tips & Tricks" -> <<"T","i","p","s"," ","&"," ","T","r","i","c","k","s">>
          [] c = "News" -> <<"N","e","w","s">>
          [] c = "General" -> <<"G","e","n","e","r","a","l">>]

\* C12: _categorize_topic returns one of the six categories; the category
\* is that of the first bucket, in the order Tutorial, Review, Comparison,
\* Tips & Tricks, News, with a keyword in the lowercased title, and General
\* when no bucket has one; a title with tutorial and vs is Tutorial; the
\* label of a category, taken as a title, is put in that category.
C12_FirstMatchingBucket ==
    CategorizeDone =>
        LET title == unit.input
            matching == { b \in 1..Len(Buckets) : HasAny(Buckets[b].words, title) }
        IN  /\ unit.output \in Categories
            /\ matching = {} => unit.output = "General"
            /\ matching # {} =>
                \E b \in matching :
                    /\ \A other \in matching : b <= other
                    /\ unit.output = Buckets[b].label
            /\ (Contains(<<"t","u","t","o","r","i","a","l">>, Lower(title)) /\ Contains(<<"v","s">>, Lower(title)))
                => unit.output = "Tutorial"
            /\ \A c \in Categories : title = LabelTitle[c] => unit.output = c

\* a title with a Tutorial keyword and a Comparison keyword
C12_Witness ==
    /\ CategorizeDone
    /\ unit.input = <<"v","s"," ","T","u","t","o","r","i","a","l">>
    /\ unit.output = "Tutorial"

\* C13: _calculate_upload_frequency returns videos_per_week 0 and
\* consistency unknown, and raises nothing, when there are fewer than 2
\* videos, fewer than 2 videos with a parseable publish date, or less than
\* one day between the earliest and the latest date.
C13_NoDivisionOnShortHistory ==
    FrequencyDone =>
        LET videos == unit.input
            hours == { videos[i].published_at.v :
                        i \in { j \in 1..Len(videos) : videos[j].published_at.some } }
            dated == Cardinality({ j \in 1..Len(videos) : videos[j].published_at.some })
        IN  /\ "raised" \notin DOMAIN unit.output
            /\ (\/ Len(videos) < 2
                \/ dated < 2
                \/ \A h1, h2 \in hours : h1 - h2 < 24)
               => /\ unit.output.videos_per_week = 0
                  /\ unit.output.consistency = "unknown"

\* three videos, two of them dated twelve hours apart: a span of 0 days
C13_Witness ==
    /\ FrequencyDone
    /\ Len(unit.input) = 3
    /\ unit.input[1].published_at = Some(12)
    /\ unit.input[2].published_at = None
    /\ unit.input[3].published_at = Some(0)
    /\ unit.output = [videos_per_week |-> 0, consistency |-> "unknown"]


\* the label that agrees with a rate in tenths of a video per week
LabelOfTenths(tenths) ==
    IF tenths >= 70 THEN "daily"
    ELSE IF tenths >= 30 THEN "frequent"
    ELSE IF tenths >= 10 THEN "weekly"
    ELSE "occasional"

\* C24: for at least 2 dated videos over a span of at least one day,
\* videos_per_week is the number of dated videos divided by the span in
\* weeks, and the consistency label is the one of the reported
\* videos_per_week: daily from 7, frequent from 3, weekly from 1,
\* occasional below.
C24_RateOverDatedVideos ==
    FrequencyDone =>
        LET videos == unit.input
            dated == { j \in 1..Len(videos) : videos[j].published_at.some }
            hours == { videos[i].published_at.v : i \in dated }
        IN  (Cardinality(dated) >= 2 /\ MaxOf(hours) - MinOf(hours) >= HoursPerDay) =>
                /\ unit.output.videos_per_week =
                        RoundTenths(DaysPerWeek * Cardinality(dated),
                                    (MaxOf(hours) - MinOf(hours)) \div HoursPerDay)
                /\ unit.output.consistency = LabelOfTenths(unit.output.videos_per_week)

----------------------------------------------------------------------------
(* _discover_from_search step by step: the niche-focused keywords first,   *)
(* then one search_videos call per query                                   *)

Niches == {"Technology", "Business & Finance", "Education", "General"}

\* the seed keywords handed to _discover_from_search
SeedLists ==
    { <<>>, <<<<"p","y","t","h","o","n">>>>, <<<<"p","y","t","h","o","n">>, <<"a","p","i">>, <<"t","u","t","o","r","i","a","l">>>>, default_keywords,
      <<<<"p","y","t","h","o","n">>, <<"a","p","i">>, <<"t","u","t","o","r","i","a","l">>, <<"r","u","s","t">>, <<"g","o">>, <<"a","i">>>> }

InitSearch ==
    /\ pc = "s_focus"
    /\ agent = <<>>
    /\ db = <<>>
    /\ run = IdleRun
    /\ obs = IdleObs
    /\ \E niche \in Niches, keywords \in SeedLists, world \in SearchWorlds :
        unit = [fn |-> "discover_from_search", niche |-> niche,
                keywords |-> keywords, world |-> world, niche_keywords |-> <<>>,
                calls |-> <<>>, topics |-> <<>>]

\* line 342: niche_keywords = self._get_niche_focused_keywords(keywords)
FocusKeywords ==
    /\ pc = "s_focus"
    /\ unit' = [unit EXCEPT !.niche_keywords = FocusedKeywords(unit.niche, unit.keywords)]
    /\ pc' = "s_query"
    /\ UNCHANGED <<agent, db, run, obs>>

\* lines 344-364: the next search_videos call and the topics of its results
SearchNext ==
    /\ pc = "s_query"
    /\ Len(unit.calls) < Len(SearchQueries(unit.niche_keywords))
    /\ LET q == Len(unit.calls) + 1
           query == SearchQueries(unit.niche_keywords)[q]
       IN  unit' = [unit EXCEPT
                !.calls = Append(@, query.query),
                !.topics = @ \o TopicsOfResults(query.keyword, AnswerOf(unit.world, q))]
    /\ UNCHANGED <<pc, agent, db, run, obs>>

\* line 366: return topics
ReturnTopics ==
    /\ pc = "s_query"
    /\ Len(unit.calls) = Len(SearchQueries(unit.niche_keywords))
    /\ pc' = "s_returned"
    /\ UNCHANGED <<agent, db, run, obs, unit>>

NextSearch ==
    \/ FocusKeywords
    \/ SearchNext
    \/ ReturnTopics

SpecSearch == InitSearch /\ [][NextSearch]_vars

----------------------------------------------------------------------------
(* Properties of search discovery (SpecSearch)                             *)

\* the qualifiers of a niche
QualifiersOf(niche) ==
    CASE niche = "Technology" -> <<<<" ","t","e","c","h">>, <<" ","p","r","o","g","r","a","m","m","i","n","g">>>>
      [] niche = "Business & Finance" -> <<<<" ","b","u","s","i","n","e","s","s">>, <<" ","e","n","t","r","e","p","r","e","n","e","u","r">>>>
      [] niche = "Education" -> <<<<" ","t","u","t","o","r","i","a","l">>, <<" ","c","o","u","r","s","e">>>>
      [] niche = "General" -> <<>>

\* C18: before any search query is issued every seed keyword k is expanded
\* to k followed by its niche-qualified forms: k tech and k programming for
\* Technology (python tech, python programming), k business and
\* k entrepreneur for Business & Finance, k tutorial and k course for
\* Education, and nothing more for General.
C18_NicheQualifiedExpansion ==
    /\ pc = "s_focus" => unit.calls = <<>>
    /\ pc \in {"s_query", "s_returned"} =>
        LET quals == QualifiersOf(unit.niche)
            width == 1 + Len(quals)
        IN  /\ Len(unit.niche_keywords) = width * Len(unit.keywords)
            /\ \A k \in 1..Len(unit.keywords) :
                /\ unit.niche_keywords[width * (k - 1) + 1] = unit.keywords[k]
                /\ \A j \in 1..Len(quals) :
                    unit.niche_keywords[width * (k - 1) + 1 + j]
                        = unit.keywords[k] \o quals[j]
            /\ (unit.niche = "Technology" /\ unit.keywords # <<>>
                    /\ unit.keywords[1] = <<"p","y","t","h","o","n">>)
                => /\ unit.niche_keywords[2] = <<"p","y","t","h","o","n"," ","t","e","c","h">>
                   /\ unit.niche_keywords[3] = <<"p","y","t","h","o","n"," ","p","r","o","g","r","a","m","m","i","n","g">>

\* the Technology expansion of python, api, tutorial with no query issued
C18_Witness ==
    /\ pc = "s_query"
    /\ unit.calls = <<>>
    /\ unit.niche = "Technology"
    /\ unit.keywords = <<<<"p","y","t","h","o","n">>, <<"a","p","i">>, <<"t","u","t","o","r","i","a","l">>>>
    /\ unit.niche_keywords = <<<<"p","y","t","h","o","n">>, <<"p","y","t","h","o","n"," ","t","e","c","h">>, <<"p","y","t","h","o","n"," ","p","r","o","g","r","a","m","m","i","n","g">>,
                               <<"a","p","i">>, <<"a","p","i"," ","t","e","c","h">>, <<"a","p","i"," ","p","r","o","g","r","a","m","m","i","n","g">>,
                               <<"t","u","t","o","r","i","a","l">>, <<"t","u","t","o","r","i","a","l"," ","t","e","c","h">>, <<"t","u","t","o","r","i","a","l"," ","p","r","o","g","r","a","m","m","i","n","g">>>>

\* a query was issued
Searched(query) == \E q \in 1..Len(unit.calls) : unit.calls[q] = query

\* C19: the search source searches each of the first 5 seed keywords with
\* its first 2 expansions and nothing else, at most 10 search calls; every
\* candidate it adds satisfies the relevance filter and has a source tag
\* search:<keyword>.
C19_FiveSeedKeywordsTwoExpansions ==
    pc = "s_returned" =>
        /\ Len(unit.calls) <= 10
        /\ \A k \in 1..Len(unit.keywords) :
            k <= 5 => /\ Searched(unit.keywords[k] \o <<" ","t","u","t","o","r","i","a","l">>)
                      /\ Searched(unit.keywords[k] \o <<" ","g","u","i","d","e">>)
        /\ \A t \in 1..Len(unit.topics) :
            /\ HasAny(relevant_keywords, unit.topics[t].title)
            /\ ~HasAny(irrelevant_keywords, unit.topics[t].title)
            /\ \E k \in 1..Len(unit.niche_keywords) :
                unit.topics[t].source = <<"s","e","a","r","c","h",":">> \o unit.niche_keywords[k]


----------------------------------------------------------------------------
(* Further properties of a research run (Spec) and of the evaluation       *)
(* protocol (SpecUnit)                                                     *)

\* the candidates of the run, wherever they are held
PoolOf(r) ==
    { r.all_topics[i] : i \in 1..Len(r.all_topics) }
        \cup { r.unique_topics[i] : i \in 1..Len(r.unique_topics) }
        \cup { r.evaluated_topics[i] : i \in 1..Len(r.evaluated_topics) }

\* C16: when the configured channel has a nonzero subscriber count, no
\* candidate of a run has the source trending.
C16_NoTrendingForEstablishedChannel ==
    agent.channel_info.subscriber_count > 0 =>
        \A t \in PoolOf(run) : t.source # <<"t","r","e","n","d","i","n","g">>

\* a finished run with trending enabled on a channel with subscribers
C16_Witness ==
    /\ pc = "done"
    /\ agent.channel_info.subscriber_count = 1200
    /\ run.use_trending
    /\ obs.phases[2] = "Discovered"
    /\ Len(run.evaluated_topics) >= 2

\* C17: the competition_level of every result of evaluate_topic is Low,
\* Medium or High, and it is Medium when the response has no competition
\* level line.
C17_CompetitionLevelOneOfThree ==
    EvalDone =>
        /\ unit.output.competition_level \in {<<"L","o","w">>, <<"M","e","d","i","u","m">>, <<"H","i","g","h">>}
        /\ (~unit.input.raised /\ LabelMissing(<<"C","O","M","P","E","T","I","T","I","O","N"," ","L","E","V","E","L",":">>, ResponseText))
            => unit.output.competition_level = <<"M","e","d","i","u","m">>


\* the deployment whose topic store refuses every insert
InitDegraded == Init /\ ~db.writable

\* a run is one sequential call: a statement that can run does run
SpecFair == InitDegraded /\ [][Next]_vars /\ WF_vars(Next)

\* C15: a run in which any of the video-data, search, trending,
\* text-generation and save_topic calls fail goes on to the ranking and
\* returns its list: every run that has started reaches the Ranked state.
C15_RunCompletesDespiteFailures ==
    (pc = "context") ~> (pc = "done" /\ obs.phases[Len(obs.phases)] = "Ranked")

\* a finished run on a configured channel whose uploads could not be
\* fetched, whose first evaluation failed and whose store refused every
\* insert; the list it returns is empty
C15_Witness ==
    /\ pc = "done"
    /\ agent.channel_id.some
    /\ run.channel_context.recent_themes = <<>>
    /\ obs.queries # <<>>
    /\ Len(run.evaluated_topics) >= 1
    /\ \A i \in 1..Len(obs.eval_raised) : obs.eval_raised[i]
    /\ ~db.writable
    /\ Len(db.save_calls) = Len(run.evaluated_topics)
    /\ db.topics_table = <<>>
    /\ run.high_quality = <<>>


----------------------------------------------------------------------------
(* CompetitorAnalyzer (src/src/youtube/competitor.py): the statistics of a *)
(* snapshot. A quotient is kept as the pair [num, den] it is the value of  *)

Ratio(num, den) == [num |-> num, den |-> den]
ZeroRatio == Ratio(0, 1)
AddRatio(a, b) == Ratio(a.num * b.den + b.num * a.den, a.den * b.den)
\* a < b, for positive denominators
LessRatio(a, b) == a.num * b.den < b.num * a.den

RECURSIVE SumRatios(_)
SumRatios(ratios) ==
    IF ratios = <<>> THEN ZeroRatio ELSE AddRatio(Head(ratios), SumRatios(Tail(ratios)))

\* statistics.mean of a non-empty list
MeanRatio(ratios) ==
    LET total == SumRatios(ratios)
    IN  Ratio(total.num, total.den * Len(ratios))

RECURSIVE InsertAsc(_, _)
InsertAsc(sorted, x) ==
    IF sorted = <<>> THEN <<x>>
    ELSE IF Head(sorted) <= x THEN <<Head(sorted)>> \o InsertAsc(Tail(sorted), x)
    ELSE <<x>> \o sorted

RECURSIVE SortAsc(_)
SortAsc(numbers) ==
    IF numbers = <<>> THEN <<>>
    ELSE InsertAsc(SortAsc(Tail(numbers)), Head(numbers))

\* statistics.median of a non-empty list of integers
MedianOf(numbers) ==
    LET data == SortAsc(numbers)
        n == Len(data)
    IN  IF n % 2 = 1 THEN Ratio(data[(n + 1) \div 2], 1)
        ELSE Ratio(data[n \div 2] + data[n \div 2 + 1], 2)

\* v.get('view_count', 0)
ViewCountOf(video) == IF "view_count" \in DOMAIN video THEN video.view_count ELSE 0

\* v.get('engagement_rate', 0)
EngagementRateOf(video) ==
    IF "engagement_rate" \in DOMAIN video THEN video.engagement_rate ELSE ZeroRatio

\* [f(v) for v in videos if f(v)]: the values that are not 0
RECURSIVE TruthyViews(_)
TruthyViews(videos) ==
    IF videos = <<>> THEN <<>>
    ELSE (IF ViewCountOf(Head(videos)) # 0
          THEN <<Ratio(ViewCountOf(Head(videos)), 1)>> ELSE <<>>)
         \o TruthyViews(Tail(videos))

RECURSIVE TruthyRates(_)
TruthyRates(videos) ==
    IF videos = <<>> THEN <<>>
    ELSE (IF EngagementRateOf(Head(videos)).num # 0
          THEN <<EngagementRateOf(Head(videos))>> ELSE <<>>)
         \o TruthyRates(Tail(videos))

MaxTopVideos == 5

\* sorted(videos, key=view_count, reverse=True)[:5]
TopVideos(videos) ==
    LET keyed == [i \in 1..Len(videos) |->
                    [key |-> ViewCountOf(videos[i]), val |-> videos[i]]]
        top == Prefix(SortDesc(keyed), MaxTopVideos)
    IN  [i \in 1..Len(top) |-> top[i].val]

\* _analyze_video_performance(videos)
AnalyzeVideoPerformance(videos) ==
    IF videos = <<>>
    THEN [avg_views |-> ZeroRatio, median_views |-> ZeroRatio,
          avg_engagement_rate |-> ZeroRatio, top_videos |-> <<>>]
    ELSE LET view_counts == TruthyViews(videos)
             engagement_rates == TruthyRates(videos)
         IN  [avg_views |-> IF view_counts # <<>> THEN MeanRatio(view_counts)
                            ELSE ZeroRatio,
              median_views |->
                IF view_counts # <<>>
                THEN MedianOf([i \in 1..Len(view_counts) |-> view_counts[i].num])
                ELSE ZeroRatio,
              avg_engagement_rate |->
                IF engagement_rates # <<>> THEN MeanRatio(engagement_rates)
                ELSE ZeroRatio,
              top_videos |-> TopVideos(videos)]

RECURSIVE CountThemeWords(_, _)
CountThemeWords(word_freq, words) ==
    IF words = <<>> THEN word_freq
    ELSE CountThemeWords(
            IF Len(Head(words)) > 4 THEN CountWord(word_freq, Head(words), 1)
            ELSE word_freq,
            Tail(words))

RECURSIVE CountThemes(_, _)
CountThemes(word_freq, videos) ==
    IF videos = <<>> THEN word_freq
    ELSE CountThemes(CountThemeWords(word_freq, Split(Lower(Head(videos).title))),
                     Tail(videos))

MaxThemes == 10

\* _extract_content_themes(videos)
ExtractContentThemes(videos) ==
    LET top == Prefix(SortDesc(CountThemes(<<>>, videos)), MaxThemes)
    IN  [i \in 1..Len(top) |-> top[i].val]

\* the keys of the formats dict, in insertion order
FormatTypes == <<"tutorial", "how-to", "review", "comparison", "tips", "guide", "other">>

\* a cascade that asks for review before tutorial
FormatOfReviewFirst(title) ==
    IF Contains(<<"r","e","v","i","e","w">>, title) THEN "review"
    ELSE IF Contains(<<"t","u","t","o","r","i","a","l">>, title) THEN "tutorial"
    ELSE IF Contains(<<"h","o","w"," ","t","o">>, title) \/ Contains(<<"h","o","w","-","t","o">>, title) THEN "how-to"
    ELSE IF Contains(<<"v","s">>, title) \/ Contains(<<"v","e","r","s","u","s">>, title)
            \/ Contains(<<"c","o","m","p","a","r","i","s","o","n">>, title) THEN "comparison"
    ELSE IF Contains(<<"t","i","p","s">>, title) \/ Contains(<<"t","r","i","c","k","s">>, title) THEN "tips"
    ELSE IF Contains(<<"g","u","i","d","e">>, title) THEN "guide"
    ELSE "other"
\* lines 257-270: the bucket of a title
FormatOf(title) ==
    IF Contains(<<"t","u","t","o","r","i","a","l">>, title) THEN "tutorial"
    ELSE IF Contains(<<"h","o","w"," ","t","o">>, title) \/ Contains(<<"h","o","w","-","t","o">>, title) THEN "how-to"
    ELSE IF Contains(<<"r","e","v","i","e","w">>, title) THEN "review"
    ELSE IF Contains(<<"v","s">>, title) \/ Contains(<<"v","e","r","s","u","s">>, title)
            \/ Contains(<<"c","o","m","p","a","r","i","s","o","n">>, title) THEN "comparison"
    ELSE IF Contains(<<"t","i","p","s">>, title) \/ Contains(<<"t","r","i","c","k","s">>, title) THEN "tips"
    ELSE IF Contains(<<"g","u","i","d","e">>, title) THEN "guide"
    ELSE "other"

\* formats[format_type]: the views of the videos of a bucket, in order
RECURSIVE ViewsOfFormat(_, _)
ViewsOfFormat(format_type, videos) ==
    IF videos = <<>> THEN <<>>
    ELSE (IF FormatOf(Lower(Head(videos).title)) = format_type
          THEN <<Ratio(ViewCountOf(Head(videos)), 1)>> ELSE <<>>)
         \o ViewsOfFormat(format_type, Tail(videos))

\* max(format_performance.items(), key=avg_views): the first of the
\* non-empty buckets, in insertion order, that no other bucket exceeds
BestFormatIndex(videos) ==
    LET filled == { f \in 1..Len(FormatTypes) :
                        ViewsOfFormat(FormatTypes[f], videos) # <<>> }
        avg(f) == MeanRatio(ViewsOfFormat(FormatTypes[f], videos))
    IN  IF filled = {} THEN 0
        ELSE CHOOSE f \in filled :
                /\ \A g \in filled : ~LessRatio(avg(f), avg(g))
                /\ \A g \in filled : g < f => LessRatio(avg(g), avg(f))

\* _identify_best_format(videos)
IdentifyBestFormat(videos) ==
    IF BestFormatIndex(videos) = 0
    THEN [format |-> "unknown", avg_views |-> ZeroRatio, count |-> 0]
    ELSE [format |-> FormatTypes[BestFormatIndex(videos)],
          avg_views |-> MeanRatio(ViewsOfFormat(FormatTypes[BestFormatIndex(videos)], videos)),
          count |-> Len(ViewsOfFormat(FormatTypes[BestFormatIndex(videos)], videos))]


----------------------------------------------------------------------------
(* The paged fetch of a channel's uploads: _get_playlist_videos of         *)
(* CompetitorAnalyzer and get_channel_videos of VideoAnalyzer, and         *)
(* analyze_competitor on top of the former                                 *)

\* the most uploads of a provider's playlist
MaxUploads == 3
\* the largest max_results a caller of a fetch asks for
MaxAsked == 2

\* maxResults=min(50, max_results - len(videos)); the batches of 50 ids
MaxPageSize == 50
\* line 55: max_results=50
CompetitorMaxResults == 50
\* cutoff_date, in hours on the clock of the publish dates
CutoffHour == 24

\* the uploads a provider lists: publishedAt is the hour its text parses to,
\* None when it does not parse
UploadKinds ==
    { [title |-> <<"P","y","t","h","o","n"," ","T","u","t","o","r","i","a","l">>, publishedAt |-> Some(10 * 24), viewCount |-> 100,
       likeCount |-> 4, commentCount |-> 1],
      [title |-> <<"C","a","m","e","r","a","s"," ","R","e","v","i","e","w">>, publishedAt |-> Some(3 * 24), viewCount |-> 0,
       likeCount |-> 0, commentCount |-> 0],
      [title |-> <<"A","r","c","h","i","v","e"," ","R","e","v","i","e","w">>, publishedAt |-> Some(0), viewCount |-> 50,
       likeCount |-> 5, commentCount |-> 0],
      [title |-> <<"U","n","d","a","t","e","d">>, publishedAt |-> None, viewCount |-> 10,
       likeCount |-> 0, commentCount |-> 0] }

UploadLists == UNION { [1..n -> UploadKinds] : n \in 0..MaxUploads }

\* what the provider does: the channel lookup, whether its timestamps carry
\* the UTC suffix Z, its uploads, the largest page it serves, the page
\* request that fails (0: none) and the batch statistics call
Providers ==
    [channel : {"found"}, zulu : BOOLEAN, uploads : UploadLists,
     page_limit : {1, MaxPageSize}, failing_page : 0..2,
     statistics : {"ok", "raises"}]
    \cup [channel : {"missing", "raises"}, zulu : {TRUE}, uploads : {<<>>},
          page_limit : {MaxPageSize}, failing_page : {0}, statistics : {"ok"}]

FetchCalls ==
    { [fn |-> "analyze_competitor", max_results |-> CompetitorMaxResults] }
    \cup [fn : {"_get_playlist_videos", "get_channel_videos"}, max_results : 1..MaxAsked]

\* competitor.py line 86 takes datetime.now(), video_analyzer.py line 57
\* datetime.now(timezone.utc): whether cutoff_date carries a timezone
CutoffAware(fn) == fn = "get_channel_videos"

\* playlistItems().list(maxResults, pageToken): the items after the token's
\* position and the token of the page after them
PlaylistPage(provider, token, maxResults) ==
    LET from == IF token.some THEN token.v ELSE 0
        left == Len(provider.uploads) - from
        most == IF maxResults < provider.page_limit THEN maxResults
                ELSE provider.page_limit
        count == IF left < most THEN left ELSE most
    IN  [items |-> [i \in 1..count |->
                        [videoId |-> from + i, snippet |-> provider.uploads[from + i]]],
         nextPageToken |-> IF from + count < Len(provider.uploads)
                           THEN Some(from + count) ELSE None]

\* the for loop over the items of a page (competitor.py 99-111,
\* video_analyzer.py 71-88): fromisoformat raises ValueError on a text that
\* is no date, caught per item by get_channel_videos only; comparing a date
\* with a timezone to one without raises TypeError; an upload before the
\* cutoff ends the loop over this page
RECURSIVE ScanItems(_, _, _, _, _)
ScanItems(fn, zulu, items, i, videos) ==
    IF i > Len(items) THEN [videos |-> videos, raised |-> FALSE, cutoff_seen |-> FALSE]
    ELSE IF ~items[i].snippet.publishedAt.some
    THEN IF fn = "get_channel_videos" THEN ScanItems(fn, zulu, items, i + 1, videos)
         ELSE [videos |-> videos, raised |-> TRUE, cutoff_seen |-> FALSE]
    ELSE IF zulu # CutoffAware(fn)
    THEN [videos |-> videos, raised |-> TRUE, cutoff_seen |-> FALSE]
    ELSE IF items[i].snippet.publishedAt.v < CutoffHour
    THEN [videos |-> videos, raised |-> FALSE, cutoff_seen |-> TRUE]
    ELSE ScanItems(fn, zulu, items, i + 1,
                   Append(videos, [video_id |-> items[i].videoId,
                                   title |-> items[i].snippet.title,
                                   published_at |-> items[i].snippet.publishedAt]))

\* lines 147-158 of competitor.py, 139-153 of video_analyzer.py
EnrichedVideo(video, item) ==
    [video_id |-> video.video_id, title |-> video.title,
     published_at |-> video.published_at,
     view_count |-> item.viewCount, like_count |-> item.likeCount,
     comment_count |-> item.commentCount,
     engagement_rate |-> IF item.viewCount > 0
                         THEN Ratio((item.likeCount + item.commentCount) * 100,
                                    item.viewCount)
                         ELSE ZeroRatio]

\* _enrich_video_stats(videos): the videos as they are when the batch
\* call raises
EnrichVideoStats(provider, videos) ==
    IF provider.statistics = "raises" THEN videos
    ELSE [i \in 1..Len(videos) |->
            EnrichedVideo(videos[i], provider.uploads[videos[i].video_id])]

\* the dict of lines 63-78
Snapshot(videos) ==
    LET performance == AnalyzeVideoPerformance(videos)
    IN  [channel_id |-> "competitor",
         recent_videos |-> Len(videos),
         avg_views |-> performance.avg_views,
         median_views |-> performance.median_views,
         avg_engagement_rate |-> performance.avg_engagement_rate,
         top_performing_videos |-> performance.top_videos,
         content_themes |-> ExtractContentThemes(videos),
         upload_frequency |-> CalculateUploadFrequency(videos),
         best_performing_format |-> IdentifyBestFormat(videos)]

\* return {}: a dict with no entries
NoEntries == [entries |-> 0]

ReturnValue(value) == [raised |-> FALSE, value |-> value]

\* a handler that lets the exception through to the caller
AnalyzeCompetitorReraises == [raised |-> TRUE, value |-> NoEntries]
\* lines 80-82: except Exception: log and return {}
AnalyzeCompetitorFailed == ReturnValue(NoEntries)

\* video_analyzer.py 101-103: except Exception: log and return []
GetChannelVideosFailed == ReturnValue(<<>>)

InitFetch ==
    /\ agent = <<>>
    /\ db = <<>>
    /\ run = IdleRun
    /\ obs = IdleObs
    /\ \E call \in FetchCalls, provider \in Providers :
        /\ call.fn = "_get_playlist_videos" => provider.channel = "found"
        /\ pc = IF call.fn = "_get_playlist_videos" THEN "f_page" ELSE "f_lookup"
        /\ unit = [fn |-> call.fn, max_results |-> call.max_results,
                   provider |-> provider, videos |-> <<>>,
                   next_page_token |-> None, pages_requested |-> 0,
                   statistics_requested |-> 0, cutoff_seen |-> FALSE,
                   failed |-> "", result |-> None]

\* channels().list(id=channel_id) of analyze_competitor (40-47) and of
\* get_channel_videos (44-51)
LookupChannel ==
    /\ pc = "f_lookup"
    /\ IF unit.provider.channel = "found"
       THEN /\ pc' = "f_page"
            /\ UNCHANGED unit
       ELSE /\ pc' = "f_returned"
            /\ unit' = [unit EXCEPT
                    !.failed = IF unit.provider.channel = "raises" THEN "channels" ELSE "",
                    !.result =
                        IF unit.fn = "analyze_competitor"
                        THEN IF unit.provider.channel = "missing"
                             THEN Some(ReturnValue(NoEntries))
                             ELSE Some(AnalyzeCompetitorFailed)
                        ELSE IF unit.provider.channel = "missing"
                             THEN Some(ReturnValue(<<>>))
                             ELSE Some(GetChannelVideosFailed)]
    /\ UNCHANGED <<agent, db, run, obs>>

\* an exception inside the while loop: _get_playlist_videos logs it and
\* returns the videos it has (121-124), get_channel_videos returns [] (101-103)
PageRaised(videos, failed) ==
    IF unit.fn = "get_channel_videos"
    THEN /\ pc' = "f_returned"
         /\ unit' = [unit EXCEPT !.pages_requested = @ + 1, !.failed = failed,
                        !.result = Some(GetChannelVideosFailed)]
    ELSE IF unit.fn = "_get_playlist_videos"
    THEN /\ pc' = "f_returned"
         /\ unit' = [unit EXCEPT !.pages_requested = @ + 1, !.failed = failed,
                        !.videos = videos, !.result = Some(ReturnValue(videos))]
    ELSE /\ pc' = "f_summarize"
         /\ unit' = [unit EXCEPT !.pages_requested = @ + 1, !.failed = failed,
                        !.videos = videos]

\* one turn of the while loop (competitor.py 91-115, video_analyzer.py
\* 63-92): the page request, the loop over its items, the page token
RequestPage ==
    /\ pc = "f_page"
    /\ Len(unit.videos) < unit.max_results
    /\ IF unit.provider.failing_page = unit.pages_requested + 1
       THEN PageRaised(unit.videos, "playlistItems")
       ELSE \E page \in { PlaylistPage(unit.provider, unit.next_page_token,
                            IF MaxPageSize < unit.max_results - Len(unit.videos)
                            THEN MaxPageSize
                            ELSE unit.max_results - Len(unit.videos)) } :
            \E scan \in { ScanItems(unit.fn, unit.provider.zulu, page.items, 1,
                                    unit.videos) } :
                IF scan.raised THEN PageRaised(scan.videos, "publishedAt")
                ELSE /\ unit' = [unit EXCEPT
                            !.pages_requested = @ + 1,
                            !.videos = scan.videos,
                            !.cutoff_seen = @ \/ scan.cutoff_seen,
                            !.next_page_token = page.nextPageToken]
                     /\ pc' = IF page.nextPageToken.some
                                 /\ Len(scan.videos) < unit.max_results
                              THEN "f_page" ELSE "f_enrich"
    /\ UNCHANGED <<agent, db, run, obs>>

\* if videos: videos = self._enrich_video_stats(videos), and the return of
\* the fetch (competitor.py 118-124, video_analyzer.py 95-99)
EnrichStats ==
    /\ pc = "f_enrich"
    /\ \E videos \in { IF unit.videos = <<>> THEN <<>>
                       ELSE EnrichVideoStats(unit.provider, unit.videos) } :
        /\ unit' = [unit EXCEPT
                !.videos = videos,
                !.statistics_requested = IF unit.videos = <<>> THEN @ ELSE @ + 1,
                !.failed = IF unit.videos # <<>> /\ unit.provider.statistics = "raises"
                           THEN "videos" ELSE @,
                !.result = IF unit.fn = "analyze_competitor" THEN @
                           ELSE Some(ReturnValue(videos))]
        /\ pc' = IF unit.fn = "analyze_competitor" THEN "f_summarize" ELSE "f_returned"
    /\ UNCHANGED <<agent, db, run, obs>>

\* lines 57-78: the statistics of the videos and the snapshot returned
Summarize ==
    /\ pc = "f_summarize"
    /\ unit' = [unit EXCEPT !.result = Some(ReturnValue(Snapshot(unit.videos)))]
    /\ pc' = "f_returned"
    /\ UNCHANGED <<agent, db, run, obs>>

NextFetch ==
    \/ LookupChannel
    \/ RequestPage
    \/ EnrichStats
    \/ Summarize

SpecFetch == InitFetch /\ [][NextFetch]_vars


----------------------------------------------------------------------------
(* Properties of the paged fetch and of analyze_competitor (SpecFetch)     *)

FetchReturned == pc = "f_returned" /\ unit.result.some

\* the external calls of analyze_competitor
ExternalCalls == {"channels", "playlistItems", "videos"}

C20_NoPageAfterCutoffOrMaxResults ==
    [][(unit.cutoff_seen \/ Len(unit.videos) >= unit.max_results)
        => unit'.pages_requested = unit.pages_requested]_vars

\* the provider of the call answered every request, stamps its uploads in
\* UTC, and every upload is dated inside the lookback window
UtcUploadsInsideWindow ==
    /\ unit.provider.channel = "found"
    /\ unit.provider.zulu
    /\ unit.provider.failing_page = 0
    /\ unit.provider.statistics = "ok"
    /\ \A i \in 1..Len(unit.provider.uploads) :
        /\ unit.provider.uploads[i].publishedAt.some
        /\ unit.provider.uploads[i].publishedAt.v >= CutoffHour

\* the videos of the uploads, with their statistics
RecentVideosOf(provider) ==
    EnrichVideoStats(provider,
        [i \in 1..Len(provider.uploads) |->
            [video_id |-> i, title |-> provider.uploads[i].title,
             published_at |-> provider.uploads[i].publishedAt]])

\* C21: for a competitor whose uploads carry UTC timestamps inside the
\* lookback window, the cutoff comparison does not fail, recent_videos is
\* the number of those uploads and the statistics of the snapshot are the
\* statistics of those uploads.
C21_UtcUploadsSummarized ==
    (FetchReturned /\ unit.fn = "analyze_competitor" /\ UtcUploadsInsideWindow) =>
        /\ unit.failed # "publishedAt"
        /\ unit.result.v.value # NoEntries
        /\ unit.result.v.value.recent_videos = Len(unit.provider.uploads)
        /\ unit.result.v.value = Snapshot(RecentVideosOf(unit.provider))

----------------------------------------------------------------------------
(* The statistics of a snapshot on their own: the videos of a bounded set  *)
(* of uploads are enriched and handed to _analyze_video_performance or to  *)
(* _identify_best_format once                                              *)

\* the longest list of videos handed to a statistic
MaxVideos == 3

\* uploads that differ in their counts
CountedUploads ==
    [title : {<<"C","l","i","p">>}, publishedAt : {None}, viewCount : {0, 10, 100},
     likeCount : {0, 4}, commentCount : {0, 1}]

\* uploads that differ in their titles
TitledUploads ==
    [title : {<<"T","u","t","o","r","i","a","l"," ","R","e","v","i","e","w">>, <<"H","o","w"," ","t","o"," ","R","e","v","i","e","w">>, <<"G","u","i","d","e">>},
     publishedAt : {None}, viewCount : {10, 100}, likeCount : {0},
     commentCount : {0}]
    \cup [title : {<<"R","e","v","i","e","w">>, <<"T","i","p","s">>},
          publishedAt : {None}, viewCount : {10}, likeCount : {0},
          commentCount : {0}]
    \cup { [title |-> <<"A"," ","v","s"," ","B"," ","G","u","i","d","e">>, publishedAt |-> None, viewCount |-> 100,
            likeCount |-> 0, commentCount |-> 0],
           [title |-> <<"V","l","o","g">>, publishedAt |-> None, viewCount |-> 0,
            likeCount |-> 0, commentCount |-> 0] }

\* the provider whose videos().list answers with the statistics of uploads
StatisticsOf(uploads) ==
    [channel |-> "found", zulu |-> TRUE, uploads |-> uploads,
     page_limit |-> MaxPageSize, failing_page |-> 0, statistics |-> "ok"]

InitStats ==
    /\ pc = "stats"
    /\ agent = <<>>
    /\ db = <<>>
    /\ run = IdleRun
    /\ obs = IdleObs
    /\ \/ \E uploads \in UNION { [1..n -> CountedUploads] : n \in 0..MaxVideos } :
            unit = [fn |-> "_analyze_video_performance",
                    input |-> RecentVideosOf(StatisticsOf(uploads)),
                    done |-> FALSE, output |-> <<>>]
       \/ \E uploads \in UNION { [1..n -> TitledUploads] : n \in 0..MaxVideos } :
            unit = [fn |-> "_identify_best_format",
                    input |-> RecentVideosOf(StatisticsOf(uploads)),
                    done |-> FALSE, output |-> <<>>]

ApplyPerformance ==
    /\ pc = "stats"
    /\ unit.fn = "_analyze_video_performance"
    /\ ~unit.done
    /\ unit' = [unit EXCEPT !.done = TRUE,
                            !.output = AnalyzeVideoPerformance(unit.input)]
    /\ UNCHANGED <<pc, agent, db, run, obs>>

ApplyBestFormat ==
    /\ pc = "stats"
    /\ unit.fn = "_identify_best_format"
    /\ ~unit.done
    /\ unit' = [unit EXCEPT !.done = TRUE,
                            !.output = IdentifyBestFormat(unit.input)]
    /\ UNCHANGED <<pc, agent, db, run, obs>>

NextStats ==
    \/ ApplyPerformance
    \/ ApplyBestFormat

SpecStats == InitStats /\ [][NextStats]_vars

----------------------------------------------------------------------------
(* Properties of the statistics (SpecStats)                                *)

PerformanceDone == unit.fn = "_analyze_video_performance" /\ unit.done
BestFormatDone == unit.fn = "_identify_best_format" /\ unit.done

\* the positions of the videos of a list that have a non-zero view count
Viewed(videos) == { i \in 1..Len(videos) : videos[i].view_count # 0 }

RECURSIVE SumOver(_, _, _)
SumOver(S, videos, field) ==
    IF S = {} THEN 0
    ELSE LET i == CHOOSE j \in S : TRUE
         IN  videos[i][field] + SumOver(S \ {i}, videos, field)

\* the sum over S of (likes + comments) / views * 100, as a quotient
RECURSIVE RateSumOver(_, _)
RateSumOver(S, videos) ==
    IF S = {} THEN ZeroRatio
    ELSE LET i == CHOOSE j \in S : TRUE
         IN  AddRatio(Ratio((videos[i].like_count + videos[i].comment_count) * 100,
                            videos[i].view_count),
                      RateSumOver(S \ {i}, videos))

\* the quotient q is the number num / den
IsQuotient(q, num, den) == q.num * den = num * q.den

\* m is a median of the view counts of the videos at S: as many of them
\* are at most m as are at least m, and m lies between two of them
IsMedianOver(m, S, videos) ==
    LET below == Cardinality({ i \in S : videos[i].view_count * m.den < m.num })
        above == Cardinality({ i \in S : videos[i].view_count * m.den > m.num })
        lower == { videos[i].view_count : i \in { j \in S : videos[j].view_count * m.den <= m.num } }
        upper == { videos[i].view_count : i \in { j \in S : videos[j].view_count * m.den >= m.num } }
    IN  /\ 2 * below <= Cardinality(S)
        /\ 2 * above <= Cardinality(S)
        /\ lower # {} /\ upper # {}
        /\ 2 * m.num = (MaxOf(lower) + MinOf(upper)) * m.den

\* C22: avg_views, median_views and avg_engagement_rate are each computed
\* over exactly the videos with a non-zero view count, a video with views
\* and no likes or comments counting with rate 0, each rate being
\* (likes + comments) / views * 100; all three are 0 when no video has a
\* non-zero view count.
C22_StatisticsOverViewedVideos ==
    PerformanceDone =>
        LET S == Viewed(unit.input)
        IN  IF S = {}
            THEN /\ unit.output.avg_views = ZeroRatio
                 /\ unit.output.median_views = ZeroRatio
                 /\ unit.output.avg_engagement_rate = ZeroRatio
            ELSE /\ IsQuotient(unit.output.avg_views,
                               SumOver(S, unit.input, "view_count"), Cardinality(S))
                 /\ IsMedianOver(unit.output.median_views, S, unit.input)
                 /\ IsQuotient(unit.output.avg_engagement_rate,
                               RateSumOver(S, unit.input).num,
                               RateSumOver(S, unit.input).den * Cardinality(S))

\* the keywords of the formats, in the order of FormatTypes; other has none
FormatKeywords ==
    << {<<"t","u","t","o","r","i","a","l">>}, {<<"h","o","w"," ","t","o">>, <<"h","o","w","-","t","o">>}, {<<"r","e","v","i","e","w">>},
       {<<"v","s">>, <<"v","e","r","s","u","s">>, <<"c","o","m","p","a","r","i","s","o","n">>}, {<<"t","i","p","s">>, <<"t","r","i","c","k","s">>}, {<<"g","u","i","d","e">>}, {} >>

Matches(f, video) ==
    f = Len(FormatTypes) \/ \E kw \in FormatKeywords[f] : Contains(kw, Lower(video.title))

\* the first format, in order, whose keyword the title contains
BucketOf(video) ==
    CHOOSE f \in 1..Len(FormatTypes) :
        Matches(f, video) /\ \A g \in 1..(f - 1) : ~Matches(g, video)

\* the bucket of every video of a list
BucketsOf(videos) == [i \in 1..Len(videos) |-> BucketOf(videos[i])]

Members(f, buckets) == { i \in 1..Len(buckets) : buckets[i] = f }

\* the mean view count of bucket g is at most that of bucket f
MeanAtMost(g, f, videos, buckets) ==
    SumOver(Members(g, buckets), videos, "view_count") * Cardinality(Members(f, buckets))
        <= SumOver(Members(f, buckets), videos, "view_count") * Cardinality(Members(g, buckets))

\* f is a non-empty bucket that no non-empty bucket exceeds in mean views
HighestMean(f, videos, buckets) ==
    /\ Members(f, buckets) # {}
    /\ \A g \in 1..Len(FormatTypes) :
        Members(g, buckets) # {} => MeanAtMost(g, f, videos, buckets)

\* C23 as stated: for every list of videos the format is one of the seven
\* and is the non-empty bucket with the highest mean view count.
C23_FormatOfTaxonomyForEveryList ==
    BestFormatDone =>
        \E buckets \in {BucketsOf(unit.input)} :
        \E f \in 1..Len(FormatTypes) :
            /\ unit.output.format = FormatTypes[f]
            /\ HighestMean(f, unit.input, buckets)

\* C23: for every non-empty list of videos, best_performing_format names
\* one of tutorial, how-to, review, comparison, tips, guide, other; each
\* video is in the first bucket of that order whose keyword its title
\* contains, and the reported format is the first non-empty bucket with the
\* highest mean view count, reported with that mean and its size. For the
\* empty list the format is unknown, with mean 0 and size 0.
C23_FormatOfTaxonomy ==
    BestFormatDone =>
        IF unit.input = <<>>
        THEN unit.output = [format |-> "unknown", avg_views |-> ZeroRatio, count |-> 0]
        ELSE \E buckets \in {BucketsOf(unit.input)} :
             \E f \in 1..Len(FormatTypes) :
                /\ unit.output.format = FormatTypes[f]
                /\ HighestMean(f, unit.input, buckets)
                /\ \A g \in 1..(f - 1) : ~HighestMean(g, unit.input, buckets)
                /\ unit.output.count = Cardinality(Members(f, buckets))
                /\ IsQuotient(unit.output.avg_views,
                              SumOver(Members(f, buckets), unit.input, "view_count"),
                              Cardinality(Members(f, buckets)))

\* a title with tutorial and review in the bucket that wins, ahead of a
\* how-to title with review and of a guide
C23_Witness ==
    /\ BestFormatDone
    /\ Len(unit.input) = 3
    /\ unit.output.format = "tutorial"
    /\ unit.output.count = 1
    /\ \E i, j, k \in 1..3 :
        /\ unit.input[i].title = <<"T","u","t","o","r","i","a","l"," ","R","e","v","i","e","w">>
        /\ unit.input[j].title = <<"H","o","w"," ","t","o"," ","R","e","v","i","e","w">>
        /\ unit.input[k].title = <<"G","u","i","d","e">>
        /\ unit.input[j].view_count < unit.input[i].view_count

----------------------------------------------------------------------------
(* TopicEvaluator._build_evaluation_prompt (src/src/ai/topic_evaluator.py) *)

DigitText == <<"0","1","2","3","4","5","6","7","8","9">>

\* str(n) for a natural number
RECURSIVE NumberText(_)
NumberText(n) ==
    IF n < 10 THEN <<DigitText[n + 1]>>
    ELSE NumberText(n \div 10) \o <<DigitText[(n % 10) + 1]>>

\* format(n, ',') for a natural number
RECURSIVE FormatThousands(_)
FormatThousands(n) ==
    IF n < 1000 THEN NumberText(n)
    ELSE FormatThousands(n \div 1000) \o <<",">> \o Tail(NumberText(1000 + (n % 1000)))

\* a Python number with at most one decimal digit: an int, or a float
IntNumber(n) == [float |-> FALSE, tenths |-> 10 * n]
FloatNumber(tenths) == [float |-> TRUE, tenths |-> tenths]

\* f"{x:,}"
FormatNumber(x) ==
    IF x.float
    THEN FormatThousands(x.tenths \div 10) \o <<".">> \o NumberText(x.tenths % 10)
    ELSE FormatThousands(x.tenths \div 10)

\* d.get(key, default)
Get(d, key, default) == IF key \in DOMAIN d THEN d[key] ELSE default

\* lines 88-102: an argument of another type, or None, is replaced by the
\* empty dict or list
OrEmpty(argument) == IF argument.some THEN argument.v ELSE <<>>

\* lines 119-174: the rubric and the response format
PromptRubric ==
    <<"R","a","t","e"," ","t","h","i","s"," ","t","o","p","i","c"," ","o","n"," ","t","h","e","s","e"," ","5"," ","d","i","m","e","n","s","i","o","n","s"," ","(","0","-","1","0","0"," ","s","c","a","l","e",")",":","\n">>
    \o <<"\n">>
    \o <<"1","."," ","I","M","P","O","R","T","A","N","C","E"," ","(","0","-","1","0","0",")",":"," ","H","o","w"," ","r","e","l","e","v","a","n","t"," ","a","n","d"," ","i","m","p","o","r","t","a","n","t"," ","i","s"," ","t","h","i","s"," ","t","o"," ","t","h","e"," ","c","h","a","n","n","e","l","'","s"," ","n","i","c","h","e"," ","a","n","d"," ","a","u","d","i","e","n","c","e","?","\n">>
    \o <<" "," "," ","-"," ","C","o","n","s","i","d","e","r"," ","a","l","i","g","n","m","e","n","t"," ","w","i","t","h"," ","c","h","a","n","n","e","l","'","s"," ","e","x","i","s","t","i","n","g"," ","c","o","n","t","e","n","t","\n">>
    \o <<" "," "," ","-"," ","A","u","d","i","e","n","c","e"," ","i","n","t","e","r","e","s","t"," ","a","n","d"," ","d","e","m","a","n","d","\n">>
    \o <<" "," "," ","-"," ","S","t","r","a","t","e","g","i","c"," ","f","i","t"," ","f","o","r"," ","c","h","a","n","n","e","l"," ","g","r","o","w","t","h","\n">>
    \o <<"\n">>
    \o <<"2","."," ","W","A","T","C","H","A","B","I","L","I","T","Y"," ","(","0","-","1","0","0",")",":"," ","H","o","w"," ","l","i","k","e","l","y"," ","w","i","l","l"," ","p","e","o","p","l","e"," ","w","a","t","c","h"," ","a","n","d"," ","e","n","g","a","g","e"," ","w","i","t","h"," ","t","h","i","s"," ","c","o","n","t","e","n","t","?","\n">>
    \o <<" "," "," ","-"," ","E","n","t","e","r","t","a","i","n","m","e","n","t"," ","v","a","l","u","e","\n">>
    \o <<" "," "," ","-"," ","E","d","u","c","a","t","i","o","n","a","l"," ","v","a","l","u","e","\n">>
    \o <<" "," "," ","-"," ","C","u","r","i","o","s","i","t","y"," ","f","a","c","t","o","r","\n">>
    \o <<" "," "," ","-"," ","V","i","d","e","o"," ","l","e","n","g","t","h"," ","a","p","p","e","a","l","\n">>
    \o <<"\n">>
    \o <<"3","."," ","M","O","N","E","T","I","Z","A","T","I","O","N"," ","(","0","-","1","0","0",")",":"," ","W","h","a","t","'","s"," ","t","h","e"," ","r","e","v","e","n","u","e"," ","p","o","t","e","n","t","i","a","l","?","\n">>
    \o <<" "," "," ","-"," ","C","P","M"," ","p","o","t","e","n","t","i","a","l"," ","f","o","r"," ","t","h","e"," ","n","i","c","h","e","\n">>
    \o <<" "," "," ","-"," ","S","p","o","n","s","o","r","s","h","i","p"," ","o","p","p","o","r","t","u","n","i","t","i","e","s","\n">>
    \o <<" "," "," ","-"," ","A","f","f","i","l","i","a","t","e"," ","m","a","r","k","e","t","i","n","g"," ","p","o","t","e","n","t","i","a","l","\n">>
    \o <<" "," "," ","-"," ","P","r","o","d","u","c","t"," ","t","i","e","-","i","n"," ","p","o","s","s","i","b","i","l","i","t","i","e","s","\n">>
    \o <<" "," "," ","-"," ","E","v","e","r","g","r","e","e","n"," ","v","s"," ","t","r","e","n","d","i","n","g"," ","v","a","l","u","e","\n">>
    \o <<"\n">>
    \o <<"4","."," ","P","O","P","U","L","A","R","I","T","Y"," ","(","0","-","1","0","0",")",":"," ","H","o","w"," ","t","r","e","n","d","i","n","g"," ","a","n","d"," ","p","o","p","u","l","a","r"," ","i","s"," ","t","h","i","s"," ","t","o","p","i","c"," ","r","i","g","h","t"," ","n","o","w","?","\n">>
    \o <<" "," "," ","-"," ","C","u","r","r","e","n","t"," ","s","e","a","r","c","h"," ","v","o","l","u","m","e","\n">>
    \o <<" "," "," ","-"," ","S","o","c","i","a","l"," ","m","e","d","i","a"," ","b","u","z","z","\n">>
    \o <<" "," "," ","-"," ","S","e","a","s","o","n","a","l"," ","r","e","l","e","v","a","n","c","e","\n">>
    \o <<" "," "," ","-"," ","G","r","o","w","t","h"," ","t","r","a","j","e","c","t","o","r","y","\n">>
    \o <<"\n">>
    \o <<"5","."," ","I","N","N","O","V","A","T","I","O","N"," ","(","0","-","1","0","0",")",":"," ","H","o","w"," ","u","n","i","q","u","e"," ","a","n","d"," ","c","u","t","t","i","n","g","-","e","d","g","e"," ","i","s"," ","t","h","i","s"," ","a","n","g","l","e","?","\n">>
    \o <<" "," "," ","-"," ","U","n","i","q","u","e","n","e","s","s"," ","o","f"," ","a","p","p","r","o","a","c","h","\n">>
    \o <<" "," "," ","-"," ","S","t","a","t","e","-","o","f","-","t","h","e","-","a","r","t"," ","a","p","p","e","a","l","\n">>
    \o <<" "," "," ","-"," ","D","i","f","f","e","r","e","n","t","i","a","t","i","o","n"," ","f","r","o","m"," ","c","o","m","p","e","t","i","t","o","r","s","\n">>
    \o <<" "," "," ","-"," ","F","r","e","s","h"," ","p","e","r","s","p","e","c","t","i","v","e"," ","p","o","t","e","n","t","i","a","l","\n">>
    \o <<"\n">>
    \o <<"P","r","o","v","i","d","e"," ","y","o","u","r"," ","r","e","s","p","o","n","s","e"," ","i","n"," ","t","h","i","s"," ","E","X","A","C","T"," ","f","o","r","m","a","t",":","\n">>
    \o <<"\n">>
    \o <<"I","M","P","O","R","T","A","N","C","E",":"," ","[","s","c","o","r","e","]","/","1","0","0","\n">>
    \o <<"[","2","-","3"," ","s","e","n","t","e","n","c","e"," ","j","u","s","t","i","f","i","c","a","t","i","o","n","]","\n">>
    \o <<"\n">>
    \o <<"W","A","T","C","H","A","B","I","L","I","T","Y",":"," ","[","s","c","o","r","e","]","/","1","0","0","\n">>
    \o <<"[","2","-","3"," ","s","e","n","t","e","n","c","e"," ","j","u","s","t","i","f","i","c","a","t","i","o","n","]","\n">>
    \o <<"\n">>
    \o <<"M","O","N","E","T","I","Z","A","T","I","O","N",":"," ","[","s","c","o","r","e","]","/","1","0","0","\n">>
    \o <<"[","2","-","3"," ","s","e","n","t","e","n","c","e"," ","j","u","s","t","i","f","i","c","a","t","i","o","n","]","\n">>
    \o <<"\n">>
    \o <<"P","O","P","U","L","A","R","I","T","Y",":"," ","[","s","c","o","r","e","]","/","1","0","0","\n">>
    \o <<"[","2","-","3"," ","s","e","n","t","e","n","c","e"," ","j","u","s","t","i","f","i","c","a","t","i","o","n","]","\n">>
    \o <<"\n">>
    \o <<"I","N","N","O","V","A","T","I","O","N",":"," ","[","s","c","o","r","e","]","/","1","0","0","\n">>
    \o <<"[","2","-","3"," ","s","e","n","t","e","n","c","e"," ","j","u","s","t","i","f","i","c","a","t","i","o","n","]","\n">>
    \o <<"\n">>
    \o <<"R","E","C","O","M","M","E","N","D","E","D"," ","A","N","G","L","E",":"," ","[","Y","o","u","r"," ","r","e","c","o","m","m","e","n","d","e","d"," ","a","n","g","l","e"," ","o","r"," ","h","o","o","k"," ","f","o","r"," ","t","h","i","s"," ","t","o","p","i","c","]","\n">>
    \o <<"\n">>
    \o <<"K","E","Y","W","O","R","D","S",":"," ","[","5","-","7"," ","r","e","l","e","v","a","n","t"," ","k","e","y","w","o","r","d","s",","," ","c","o","m","m","a","-","s","e","p","a","r","a","t","e","d","]","\n">>
    \o <<"\n">>
    \o <<"C","O","M","P","E","T","I","T","I","O","N"," ","L","E","V","E","L",":"," ","[","L","o","w","/","M","e","d","i","u","m","/","H","i","g","h","]","\n">>
    \o <<"\n">>
    \o <<"N","O","T","E","S",":"," ","[","A","n","y"," ","a","d","d","i","t","i","o","n","a","l"," ","s","t","r","a","t","e","g","i","c"," ","i","n","s","i","g","h","t","s","]">>

MaxPromptThemes == 5
MaxPromptTrends == 10
MaxPromptCompetitors == 5

\* lines 104-117 and the rubric, around the trend titles and the competitor
\* titles that are handed in
PromptAround(topic, context, trend_titles, competitor_titles) ==
    <<"Y","o","u"," ","a","r","e"," ","a"," ","Y","o","u","T","u","b","e"," ","c","o","n","t","e","n","t"," ","s","t","r","a","t","e","g","y"," ","e","x","p","e","r","t","."," ","E","v","a","l","u","a","t","e"," ","t","h","i","s"," ","c","o","n","t","e","n","t"," ","t","o","p","i","c"," ","f","o","r"," ","a"," ","Y","o","u","T","u","b","e"," ","c","h","a","n","n","e","l",".","\n">>
    \o <<"\n">>
    \o <<"T","O","P","I","C",":"," ">> \o topic \o <<"\n">>
    \o <<"\n">>
    \o <<"C","H","A","N","N","E","L"," ","C","O","N","T","E","X","T",":","\n">>
    \o <<"-"," ","C","h","a","n","n","e","l",":"," ">> \o Get(context, "channel_title", <<"U","n","k","n","o","w","n">>) \o <<"\n">>
    \o <<"-"," ","S","u","b","s","c","r","i","b","e","r","s",":"," ">> \o FormatNumber(Get(context, "subscriber_count", IntNumber(0))) \o <<"\n">>
    \o <<"-"," ","A","v","e","r","a","g","e"," ","V","i","e","w","s",":"," ">> \o FormatNumber(Get(context, "avg_views", IntNumber(0))) \o <<"\n">>
    \o <<"-"," ","N","i","c","h","e",":"," ">> \o Get(context, "niche", <<"G","e","n","e","r","a","l">>) \o <<"\n">>
    \o <<"-"," ","R","e","c","e","n","t"," ","V","i","d","e","o"," ","T","h","e","m","e","s",":"," ">>
    \o Join(<<","," ">>, Prefix(Get(context, "recent_themes", <<>>), MaxPromptThemes)) \o <<"\n">>
    \o <<"\n">>
    \o (IF trend_titles # <<>> THEN <<"C","U","R","R","E","N","T"," ","T","R","E","N","D","S",":"," ">> \o Join(<<","," ">>, trend_titles)
        ELSE <<>>) \o <<"\n">>
    \o <<"\n">>
    \o (IF competitor_titles # <<>>
        THEN <<"T","O","P"," ","C","O","M","P","E","T","I","T","O","R"," ","T","O","P","I","C","S",":"," ">> \o Join(<<","," ">>, competitor_titles)
        ELSE <<>>) \o <<"\n">>
    \o <<"\n">>
    \o PromptRubric

\* [c.get('title', '') for c in competitors]
CompetitorTitles(competitors) ==
    [i \in 1..Len(competitors) |-> Get(competitors[i], "title", <<>>)]

\* _build_evaluation_prompt(topic, channel_context, trends, competitors)
BuildEvaluationPrompt(topic, channel_context, trends, competitors) ==
    PromptAround(topic, OrEmpty(channel_context),
                 Prefix(OrEmpty(trends), MaxPromptTrends),
                 CompetitorTitles(Prefix(OrEmpty(competitors), MaxPromptCompetitors)))

----------------------------------------------------------------------------
(* The prompt builder on its own: every input of a bounded set is handed   *)
(* to it once                                                              *)

\* the longest list of trend titles, and of competitors, handed in
MaxTrends == 11
MaxCompetitors == 6

\* the i-th trend title and the i-th competitor: the second competitor has
\* no title
TrendTitle(i) == <<"T","r","e","n","d"," ">> \o NumberText(100 + i)
Competitor(i) ==
    IF i = 2 THEN [channel_id |-> <<"U","C","2">>]
    ELSE [channel_id |-> <<"U","C">> \o NumberText(i), title |-> <<"R","i","v","a","l"," ">> \o NumberText(100 + i)]

PromptTopics == {<<"R","u","s","t"," ","A","s","y","n","c">>, <<"A","I"," ","T","o","o","l","s">>}

\* what channel_context can be: not a dict, the context of an agent with no
\* channel, the context of a channel with uploads
PromptContexts ==
    { None,
      Some([channel_id |-> None, channel_title |-> <<"U","n","k","n","o","w","n">>,
            subscriber_count |-> IntNumber(0), niche |-> <<"G","e","n","e","r","a","l">>,
            avg_views |-> IntNumber(0), recent_themes |-> <<>>]),
      Some([channel_id |-> Some("UC1"), channel_title |-> <<"D","e","v">>,
            subscriber_count |-> IntNumber(12500), niche |-> <<"T","e","c","h","n","o","l","o","g","y">>,
            avg_views |-> FloatNumber(10755),
            recent_themes |-> <<<<"p","y","t","h","o","n">>, <<"c","o","d","i","n","g">>, <<"b","a","s","i","c","s">>, <<"t","i","p","s">>, <<"r","u","s","t">>, <<"a","s","y","n","c">>>>]) }

PromptTrends ==
    {None} \cup { Some([i \in 1..n |-> TrendTitle(i)]) : n \in 0..MaxTrends }

PromptCompetitors ==
    {None} \cup { Some([i \in 1..n |-> Competitor(i)]) : n \in 0..MaxCompetitors }

InitPrompt ==
    /\ pc = "prompt"
    /\ agent = <<>>
    /\ db = <<>>
    /\ run = IdleRun
    /\ obs = IdleObs
    /\ \E topic \in PromptTopics, context \in PromptContexts,
          trends \in PromptTrends, competitors \in PromptCompetitors :
        unit = [fn |-> "_build_evaluation_prompt",
                input |-> [topic |-> topic, channel_context |-> context,
                           trends |-> trends, competitors |-> competitors],
                done |-> FALSE, output |-> <<>>]

ApplyBuildPrompt ==
    /\ pc = "prompt"
    /\ ~unit.done
    /\ unit' = [unit EXCEPT
            !.done = TRUE,
            !.output = BuildEvaluationPrompt(unit.input.topic,
                            unit.input.channel_context, unit.input.trends,
                            unit.input.competitors)]
    /\ UNCHANGED <<pc, agent, db, run, obs>>

NextPrompt == ApplyBuildPrompt

SpecPrompt == InitPrompt /\ [][NextPrompt]_vars

----------------------------------------------------------------------------
(* Properties of the prompt builder (SpecPrompt)                           *)

PromptDone == unit.fn = "_build_evaluation_prompt" /\ unit.done

\* C25: the prompt embeds the first 5 trend titles and the titles of the
\* first 5 competitors, in order, and no later one; it is the text of the
\* template around them.
C25_FiveTrendsFiveCompetitors ==
    PromptDone =>
        /\ unit.output =
            PromptAround(unit.input.topic, OrEmpty(unit.input.channel_context),
                         Prefix(OrEmpty(unit.input.trends), 5),
                         CompetitorTitles(Prefix(OrEmpty(unit.input.competitors), 5)))
        /\ Len(OrEmpty(unit.input.trends)) >= 6 =>
            ~Contains(OrEmpty(unit.input.trends)[6], unit.output)
        /\ Len(OrEmpty(unit.input.competitors)) >= 6 =>
            ~Contains(OrEmpty(unit.input.competitors)[6].title, unit.output)
----------------------------------------------------------------------------
(* The trending source on its own: lines 163-167 of research_topics, for   *)
(* every channel and every answer of the trending provider                 *)

\* the longest list the trending provider has to offer
MaxTrending == 3

TrendingTitles == {<<"V","i","r","a","l"," ","T","e","c","h"," ","N","e","w","s">>, <<"T","o","p"," ","M","u","s","i","c"," ","V","i","d","e","o">>, <<"A","I"," ","E","x","p","l","a","i","n","e","d">>}

\* what get_trending_videos would return if it were asked
TrendingLists ==
    UNION { [1..n -> { [title |-> t] : t \in TrendingTitles }] : n \in 0..MaxTrending }

InitTrending ==
    /\ pc = "trending_source"
    /\ agent = <<>>
    /\ db = <<>>
    /\ run = IdleRun
    /\ obs = IdleObs
    /\ \E channel \in {NoChannel, NewChannel, GrownChannel},
          use_trending \in BOOLEAN, trending \in TrendingLists :
        unit = [fn |-> "_discover_from_trending",
                channel_id |-> channel.channel_id,
                channel_info |-> channel.channel_info,
                use_trending |-> use_trending,
                trending |-> trending,
                done |-> FALSE, all_topics |-> <<>>]

\* research_topics, lines 163-167: if use_trending, the trending topics
\* extend all_topics
ApplyDiscoverTrending ==
    /\ pc = "trending_source"
    /\ ~unit.done
    /\ unit' = [unit EXCEPT
            !.done = TRUE,
            !.all_topics = IF unit.use_trending
                           THEN @ \o DiscoverFromTrending(unit.channel_info)
                           ELSE @]
    /\ UNCHANGED <<pc, agent, db, run, obs>>

NextTrending == ApplyDiscoverTrending

SpecTrending == InitTrending /\ [][NextTrending]_vars

----------------------------------------------------------------------------
(* Properties of the trending source (SpecTrending)                        *)

TrendingDone == unit.fn = "_discover_from_trending" /\ unit.done

\* no channel id, or a channel with no subscribers
BrandNewOrUnconfigured(u) ==
    ~u.channel_id.some \/ u.channel_info.subscriber_count = 0

\* C26: for a brand-new or unconfigured channel with trending enabled, every
\* title the trending provider returns is in the candidate pool with source
\* "trending".
C26_TrendingTitlesEnterPool ==
    (TrendingDone /\ unit.use_trending /\ BrandNewOrUnconfigured(unit)) =>
        \A i \in 1..Len(unit.trending) :
            \E j \in 1..Len(unit.all_topics) :
                /\ unit.all_topics[j].title = unit.trending[i].title
                /\ unit.all_topics[j].source = <<"t","r","e","n","d","i","n","g">>
----------------------------------------------------------------------------
(* The web layer: two POST /api/research requests on the one AgentWrapper  *)
(* of the module. app.run() serves every request on a thread of its own,   *)
(* and neither research() nor AgentWrapper.research_topics takes a lock.   *)
(* Of a run, the steps that touch the shared session_stats are kept: the   *)
(* evaluation loop and the filter. self.session_stats[...] += 1 is a read  *)
(* and a later write of the shared dict, and another thread can run        *)
(* between the two.                                                        *)

\* the most candidates one request's run evaluates
MaxCandidates == 2

Requests == {1, 2}

PendingRequest ==
    [at |-> "pending", topics_to_evaluate |-> 0, evaluated_topics |-> 0,
     high_quality |-> 0, loaded |-> 0]

InitWeb ==
    /\ pc = "web"
    /\ agent = <<>>
    /\ db = <<>>
    /\ run = IdleRun
    /\ obs = IdleObs
    /\ unit = [fn |-> "research",
               session_stats |-> [topics_researched |-> 0,
                                  high_quality_count |-> 0],
               saved |-> 0,
               requests |-> [r \in Requests |-> PendingRequest]]

\* research() -> agent.research_topics(keywords, max_topics): the request's
\* thread runs the discovery, which leaves topics_to_evaluate
HandleRequest(r) ==
    /\ pc = "web"
    /\ unit.requests[r].at = "pending"
    /\ \E n \in 0..MaxCandidates :
        unit' = [unit EXCEPT !.requests[r].at = "loop",
                             !.requests[r].topics_to_evaluate = n]
    /\ UNCHANGED <<pc, agent, db, run, obs>>

\* lines 207-242: evaluate_topic and evaluated_topics.append, then the read
\* of self.session_stats['topics_researched']
EvaluateAndRead(r) ==
    /\ pc = "web"
    /\ unit.requests[r].at = "loop"
    /\ unit.requests[r].evaluated_topics < unit.requests[r].topics_to_evaluate
    /\ \E good \in BOOLEAN :
        unit' = [unit EXCEPT
            !.requests[r].at = "store",
            !.requests[r].evaluated_topics = @ + 1,
            !.requests[r].high_quality = IF good THEN @ + 1 ELSE @,
            !.requests[r].loaded = unit.session_stats.topics_researched]
    /\ UNCHANGED <<pc, agent, db, run, obs>>

\* line 243: the write of the sum, and line 246: save_topic
StoreAndSave(r) ==
    /\ pc = "web"
    /\ unit.requests[r].at = "store"
    /\ unit' = [unit EXCEPT
            !.requests[r].at = "loop",
            !.session_stats.topics_researched = unit.requests[r].loaded + 1,
            !.saved = @ + 1]
    /\ UNCHANGED <<pc, agent, db, run, obs>>

\* lines 251-261: the filter, high_quality_count, the sort and the return
FilterAndReturn(r) ==
    /\ pc = "web"
    /\ unit.requests[r].at = "loop"
    /\ unit.requests[r].evaluated_topics = unit.requests[r].topics_to_evaluate
    /\ unit' = [unit EXCEPT
            !.requests[r].at = "returned",
            !.session_stats.high_quality_count = unit.requests[r].high_quality]
    /\ UNCHANGED <<pc, agent, db, run, obs>>

NextWeb ==
    \E r \in Requests :
        \/ HandleRequest(r)
        \/ EvaluateAndRead(r)
        \/ StoreAndSave(r)
        \/ FilterAndReturn(r)

SpecWeb == InitWeb /\ [][NextWeb]_vars

----------------------------------------------------------------------------
(* Properties of the web layer (SpecWeb)                                   *)

ActiveRequests ==
    { r \in Requests : unit.requests[r].at \notin {"pending", "returned"} }

AllReturned == \A r \in Requests : unit.requests[r].at = "returned"

\* C27: the two runs never interleave (at most one run is active at a
\* time), and when both have returned topics_researched has grown by the
\* number of candidates the two runs evaluated.
C27_RunsNeverInterleave ==
    unit.fn = "research" =>
        /\ Cardinality(ActiveRequests) <= 1
        /\ AllReturned =>
            unit.session_stats.topics_researched =
                unit.requests[1].evaluated_topics + unit.requests[2].evaluated_topics
----------------------------------------------------------------------------
(* The channel context on its own: _build_channel_context and the seed     *)
(* keywords derived from it, for every channel and every upload history of *)
(* a bounded set                                                           *)

\* the longest upload history
MaxContextVideos == 2

TaggedVideo(title, views, tags) ==
    [title |-> title, view_count |-> views, video_id |-> "u", tags |-> tags]

\* the uploads of a history: titles of each niche and of several, a title
\* with no word longer than 3 letters (with and without a tag), and an
\* upload whose eleventh tag is the first keyword of a niche
ContextVideos ==
    { TaggedVideo(<<"P","y","t","h","o","n"," ","C","o","d","i","n","g"," ","B","a","s","i","c","s">>, 100, <<>>),
      TaggedVideo(<<"S","t","a","r","t","u","p"," ","M","a","r","k","e","t","i","n","g">>, 50, <<>>),
      TaggedVideo(<<"C","o","u","r","s","e"," ","G","u","i","d","e">>, 10, <<>>),
      TaggedVideo(<<"L","e","a","r","n"," ","F","i","n","a","n","c","e">>, 20, <<>>),
      TaggedVideo(<<"C","a","t"," ","V","l","o","g">>, 7, <<>>),
      TaggedVideo(<<"D","a","i","l","y"," ","R","o","u","t","i","n","e">>, 0, <<>>),
      TaggedVideo(<<"C","a","t"," ","D","o","g">>, 30, <<>>),
      TaggedVideo(<<"C","a","t">>, 3, <<<<"A","I">>>>),
      TaggedVideo(<<"D","o","g">>, 1, <<<<"t","1">>, <<"t","2">>, <<"t","3">>, <<"t","4">>, <<"t","5">>, <<"t","6">>, <<"t","7">>, <<"t","8">>, <<"t","9">>, <<"t","1","0">>, <<"C","o","d","i","n","g">>>>) }

ContextHistories ==
    UNION { [1..n -> ContextVideos] : n \in 0..MaxContextVideos }

InitContext ==
    /\ pc = "channel_context"
    /\ agent = <<>>
    /\ db = <<>>
    /\ run = IdleRun
    /\ obs = IdleObs
    /\ \E channel \in {NoChannel, NewChannel, GrownChannel},
          recent_videos \in ContextHistories :
        unit = [fn |-> "_build_channel_context",
                channel_id |-> channel.channel_id,
                channel_info |-> channel.channel_info,
                recent_videos |-> recent_videos,
                done |-> FALSE, context |-> NoContext, keywords |-> <<>>]

\* research_topics, lines 152-156, called without keywords
ApplyBuildContext ==
    /\ pc = "channel_context"
    /\ ~unit.done
    /\ \E context \in {BuildChannelContext(unit.channel_id, unit.channel_info,
                                           unit.recent_videos)} :
        unit' = [unit EXCEPT !.done = TRUE,
                             !.context = context,
                             !.keywords = DeriveKeywordsFromChannel(context)]
    /\ UNCHANGED <<pc, agent, db, run, obs>>

NextContext == ApplyBuildContext

SpecContext == InitContext /\ [][NextContext]_vars

----------------------------------------------------------------------------
(* Properties of the channel context (SpecContext)                         *)

ContextDone == unit.fn = "_build_channel_context" /\ unit.done

\* a keyword of the list occurs in one of the extracted keywords
OccursIn(list, extracted) ==
    \E k \in 1..Len(list), e \in 1..Len(extracted) :
        Contains(list[k], Lower(extracted[e]))

FirstNiche(extracted) ==
    IF OccursIn(tech_keywords, extracted) THEN "Technology"
    ELSE IF OccursIn(business_keywords, extracted) THEN "Business & Finance"
    ELSE IF OccursIn(education_keywords, extracted) THEN "Education"
    ELSE "General"

\* C28: with no channel id or an empty upload history the context has niche
\* General, no recent themes and avg_views 0, and the seed keywords are the
\* default list trending, popular, viral, top, best; otherwise the niche is
\* the first of Technology, Business & Finance, Education with a keyword that
\* occurs in the keywords extracted from the uploads, else General.
C28_ContextDegradesToGeneral ==
    ContextDone =>
        IF ~unit.channel_id.some \/ unit.recent_videos = <<>>
        THEN /\ unit.context.niche = "General"
             /\ unit.context.recent_themes = <<>>
             /\ unit.context.avg_views.sum = 0
             /\ unit.keywords = <<<<"t","r","e","n","d","i","n","g">>, <<"p","o","p","u","l","a","r">>, <<"v","i","r","a","l">>, <<"t","o","p">>, <<"b","e","s","t">>>>
        ELSE unit.context.niche =
                FirstNiche(ExtractKeywordsFromVideos(unit.recent_videos))

\* a configured channel with no uploads got the General context and the
\* default seed keywords
C28_Witness ==
    /\ ContextDone
    /\ unit.channel_id.some
    /\ unit.recent_videos = <<>>
    /\ unit.context.niche = "General"
    /\ Len(unit.keywords) = 5
----------------------------------------------------------------------------
(* Properties of the session statistics of an agent after a run (Spec)     *)

\* the number of recent uploads the context of the run was built from
UploadsOf(channel_context) ==
    IF channel_context.recent_themes = <<>> THEN 0
    ELSE channel_context.avg_views.n

\* C29: after a run topics_researched is the number of candidates evaluated
\* and handed to save_topic, high_quality_count is the length of the list
\* the run returned and is at most topics_researched, and videos_analyzed
\* has grown by the number of the channel's recent uploads, once.
C29_SessionStatsMatchTheRun ==
    pc = "done" =>
        /\ agent.session_stats.topics_researched = Len(run.evaluated_topics)
        /\ agent.session_stats.topics_researched = Len(db.save_calls)
        /\ agent.session_stats.high_quality_count = Len(run.high_quality)
        /\ agent.session_stats.high_quality_count
                <= agent.session_stats.topics_researched
        /\ agent.session_stats.videos_analyzed = UploadsOf(run.channel_context)
----------------------------------------------------------------------------
(* The topic store on its own: any sequence of save_topic and              *)
(* toggle_favorite calls on one ResearchDatabase                           *)

\* the most topics saved and the most toggle_favorite calls of a sequence
MaxSaved == 2
MaxToggles == 3

\* the position in the table of the document with the id, 0 when there is
\* none: topics_table.get(doc_id=topic_id)
PositionOf(topics_table, topic_id) ==
    IF \E i \in 1..Len(topics_table) : topics_table[i].doc_id = topic_id
    THEN CHOOSE i \in 1..Len(topics_table) : topics_table[i].doc_id = topic_id
    ELSE 0

\* a toggle that marks the topic as a favorite whatever it was
ToggleFavoriteSetsTrue(store, topic_id, ok) ==
    LET i == PositionOf(store.topics_table, topic_id)
    IN  IF i = 0 \/ ~ok THEN [store |-> store, returned |-> FALSE]
        ELSE [store |-> [store EXCEPT !.topics_table[i].favorited = TRUE],
              returned |-> TRUE]

\* toggle_favorite(topic_id): the store after the call and the value
\* returned; ok is false when the update raises
ToggleFavorite(store, topic_id, ok) ==
    LET i == PositionOf(store.topics_table, topic_id)
    IN  IF i = 0 THEN [store |-> store, returned |-> FALSE]
        ELSE IF ~ok THEN [store |-> store, returned |-> FALSE]
        ELSE LET new_status == ~store.topics_table[i].favorited
             IN  [store |-> [store EXCEPT !.topics_table[i].favorited = new_status],
                  returned |-> new_status]

\* the records handed to save_topic: without the favorited field, and
\* carrying it
StoredTopics ==
    { [title |-> <<"R","u","s","t"," ","A","s","y","n","c">>],
      [title |-> <<"A","I"," ","T","o","o","l","s">>, favorited |-> TRUE],
      [title |-> <<"G","o"," ","T","i","p","s">>, favorited |-> FALSE] }

\* the ids save_topic has returned
SavedIds == { unit.saved[k].doc_id : k \in 1..Len(unit.saved) } \ {-1}

\* the calls made so far: for every save_topic the favorited field of the
\* record handed in (None when it has none) and the id returned, for every
\* document id the number of toggle_favorite calls on it since it was
\* returned, and the last toggle_favorite call with the table it found
InitStore ==
    /\ pc = "store"
    /\ agent = <<>>
    /\ \E writable \in BOOLEAN :
        db = [topics_table |-> <<>>, last_id |-> 0, save_calls |-> <<>>,
              writable |-> writable]
    /\ run = IdleRun
    /\ obs = IdleObs
    /\ unit = [fn |-> "store", saved |-> <<>>,
               toggles |-> [id \in 1..(MaxSaved + 1) |-> 0],
               toggle_calls |-> 0,
               last |-> [op |-> "none"]]

\* db.save_topic(topic)
CallSaveTopic ==
    /\ pc = "store"
    /\ Len(unit.saved) < MaxSaved
    /\ \E topic \in StoredTopics :
        /\ db' = SaveTopic(db, topic, db.writable)
        /\ unit' = [unit EXCEPT
                !.saved = Append(@,
                    [carried |-> IF "favorited" \in DOMAIN topic
                                 THEN Some(topic.favorited) ELSE None,
                     doc_id |-> IF db.writable THEN db.last_id + 1 ELSE -1]),
                !.last = [op |-> "save_topic"]]
    /\ UNCHANGED <<pc, agent, run, obs>>

\* AgentWrapper.toggle_favorite(topic_id) -> db.toggle_favorite(topic_id)
CallToggleFavorite ==
    /\ pc = "store"
    /\ unit.toggle_calls < MaxToggles
    /\ \E topic_id \in 1..(MaxSaved + 1) :
        \E result \in {ToggleFavorite(db, topic_id, db.writable)} :
            /\ db' = result.store
            /\ unit' = [unit EXCEPT
                    !.toggles[topic_id] = IF topic_id \in SavedIds THEN @ + 1 ELSE @,
                    !.toggle_calls = @ + 1,
                    !.last = [op |-> "toggle_favorite", topic_id |-> topic_id,
                              returned |-> result.returned,
                              found |-> db.topics_table]]
    /\ UNCHANGED <<pc, agent, run, obs>>

NextStore ==
    \/ CallSaveTopic
    \/ CallToggleFavorite

SpecStore == InitStore /\ [][NextStore]_vars

----------------------------------------------------------------------------
(* Properties of the topic store (SpecStore)                               *)

\* the flag a record has when it is saved
FlagAtSave(carried) == IF carried.some THEN carried.v ELSE FALSE

\* the flag after a number of toggles
FlagAfter(flag, toggles) == IF toggles % 2 = 0 THEN flag ELSE ~flag

====
